---- MODULE Spec2Model ----
(***************************************************************************)
(* Model of the support-frontend client: the conversation flow engine      *)
(* (initializeConversation, validateInput, generateIssueTitle,             *)
(* detectCategory, processUserInput), the API client's request loop, the   *)
(* useTickets, useChat and useWebSocket hooks.                             *)
(*                                                                         *)
(* A JavaScript string is modelled as a sequence of one-character strings, *)
(* so trimming, whitespace collapsing, splitting, truncation, lower-casing *)
(* and substring search are computed character by character.  An optional  *)
(* string field is None (undefined) or Some(s).                            *)
(***************************************************************************)
EXTENDS Integers, Sequences, FiniteSets, TLC

VARIABLES
    conv,        \* the held ConversationState (NoConv outside the engine specs)
    prev,        \* the ConversationState passed to the last processUserInput call
    lastInput,   \* the raw userInput of the last processUserInput call
    aiResponse,  \* the AIResponse returned by the last processUserInput call
    calls,       \* number of processUserInput calls made so far
    fn,          \* pure-function harness: which function is applied
    fnIn,        \* pure-function harness: its argument(s)
    fnOut,       \* pure-function harness: results computed so far
    api,         \* one ApiClient.request call in progress
    tk,          \* the useTickets view-model and its requests in flight
    ws,          \* the useWebSocket channel client and its transport
    passed,      \* the object passed to the last processUserInput call, as the call left it
    ch           \* the useChat hook under the chat page, and its requests in flight

vars == <<conv, prev, passed, lastInput, aiResponse, calls, fn, fnIn, fnOut, api, tk, ws, ch>>

----------------------------------------------------------------------------
(* JavaScript string primitives                                            *)

None == <<>>

Some(s) == <<s>>

\* the characters /\s/ matches, restricted to the ones the inputs use
IsWhitespace(c) == c \in {" ", "\t"}

UpperCaseLetters ==
    <<"A","B","C","D","E","F","G","H","I","J","K","L","M",
      "N","O","P","Q","R","S","T","U","V","W","X","Y","Z">>

LowerCaseLetters ==
    <<"a","b","c","d","e","f","g","h","i","j","k","l","m",
      "n","o","p","q","r","s","t","u","v","w","x","y","z">>

\* the lower-case form of each upper-case letter
LowerCaseOf ==
    [c \in {UpperCaseLetters[i] : i \in 1..Len(UpperCaseLetters)} |->
        LowerCaseLetters[CHOOSE i \in 1..Len(UpperCaseLetters) : UpperCaseLetters[i] = c]]

LowerChar(c) == IF c \in DOMAIN LowerCaseOf THEN LowerCaseOf[c] ELSE c

\* String.prototype.toLowerCase
ToLowerCase(s) == [i \in 1..Len(s) |-> LowerChar(s[i])]

\* the positions of s holding a non-whitespace character
NonBlankPositions(s) == {i \in 1..Len(s) : ~IsWhitespace(s[i])}

\* String.prototype.trim
Trim(s) ==
    LET kept == NonBlankPositions(s)
    IN  IF kept = {} THEN <<>>
        ELSE SubSeq(s, CHOOSE i \in kept : \A j \in kept : i <= j,
                       CHOOSE i \in kept : \A j \in kept : i >= j)

\* s.replace(/\s+/g, ' '): every maximal run of whitespace becomes one space
CollapseWhitespace(s) ==
    LET marked == [i \in 1..Len(s) |->
                     IF ~IsWhitespace(s[i]) THEN s[i]
                     ELSE IF i > 1 /\ IsWhitespace(s[i - 1]) THEN "" ELSE " "]
        Kept(c) == c # ""
    IN  SelectSeq(marked, Kept)

\* s.split(sep)[0] for a one-character separator
SplitFirst(s, sep) ==
    LET at == {i \in 1..Len(s) : s[i] = sep}
    IN  IF at = {} THEN s
        ELSE SubSeq(s, 1, (CHOOSE i \in at : \A j \in at : i <= j) - 1)

\* s.substring(0, n)
Substring0(s, n) == SubSeq(s, 1, IF n < Len(s) THEN n ELSE Len(s))

\* String.prototype.includes
Includes(s, k) ==
    \E i \in 0..(Len(s) - Len(k)) : \A j \in 1..Len(k) : s[i + j] = k[j]

\* Array.prototype.filter(pred).length for pred = description.includes
CountIncluded(keywords, description) ==
    Cardinality({i \in 1..Len(keywords) : Includes(description, keywords[i])})

\* a || fallback on an optional string: undefined and '' are both falsy
OrElse(opt, fallback) ==
    IF opt = None \/ opt[1] = <<>> THEN fallback ELSE opt[1]

----------------------------------------------------------------------------
(* types/chat.ts, types/ticket.ts                                          *)

GREETING == "greeting"
COLLECT_NAME == "collect_name"
COLLECT_ISSUE == "collect_issue"
CLARIFY_DETAILS == "clarify_details"
SUGGEST_CATEGORY == "suggest_category"
CONFIRM_CATEGORY == "confirm_category"
FINAL_CONFIRMATION == "final_confirmation"
TICKET_CREATED == "ticket_created"
ERROR == "error"

ConversationStep ==
    {GREETING, COLLECT_NAME, COLLECT_ISSUE, CLARIFY_DETAILS, SUGGEST_CATEGORY,
     CONFIRM_CATEGORY, FINAL_CONFIRMATION, TICKET_CREATED, ERROR}

USER == "user"
ASSISTANT == "assistant"

TECHNICAL == "technical"
BILLING == "billing"
ACCOUNT == "account"
FEATURE_REQUEST == "feature_request"
BUG_REPORT == "bug_report"
GENERAL == "general"
OTHER_CATEGORY == "other"

\* Object.values(TicketCategory), in declaration order
TicketCategory ==
    <<TECHNICAL, BILLING, ACCOUNT, FEATURE_REQUEST, BUG_REPORT, GENERAL, OTHER_CATEGORY>>

\* a category field that has not been assigned
Undefined == "undefined"

\* the characters of each category value
CategoryChars(category) ==
    CASE category = TECHNICAL -> <<"t","e","c","h","n","i","c","a","l">>
      [] category = BILLING -> <<"b","i","l","l","i","n","g">>
      [] category = ACCOUNT -> <<"a","c","c","o","u","n","t">>
      [] category = FEATURE_REQUEST -> <<"f","e","a","t","u","r","e","_","r","e","q","u","e","s","t">>
      [] category = BUG_REPORT -> <<"b","u","g","_","r","e","p","o","r","t">>
      [] category = GENERAL -> <<"g","e","n","e","r","a","l">>
      [] category = OTHER_CATEGORY -> <<"o","t","h","e","r">>

getCategoryDisplayName(category) ==
    CASE category = TECHNICAL -> <<"T","e","c","h","n","i","c","a","l"," ","I","s","s","u","e">>
      [] category = BILLING -> <<"B","i","l","l","i","n","g"," ","&"," ","P","a","y","m","e","n","t","s">>
      [] category = ACCOUNT -> <<"A","c","c","o","u","n","t"," ","M","a","n","a","g","e","m","e","n","t">>
      [] category = FEATURE_REQUEST -> <<"F","e","a","t","u","r","e"," ","R","e","q","u","e","s","t">>
      [] category = BUG_REPORT -> <<"B","u","g"," ","R","e","p","o","r","t">>
      [] category = GENERAL -> <<"G","e","n","e","r","a","l"," ","I","n","q","u","i","r","y">>
      [] category = OTHER_CATEGORY -> <<"O","t","h","e","r">>
      [] OTHER -> <<"U","n","k","n","o","w","n">>

QUICK_REPLIES_YES ==
    << <<"Y","e","s">>, <<"C","o","r","r","e","c","t">>, <<"T","h","a","t","'","s"," ","r","i","g","h","t">> >>

QUICK_REPLIES_NO ==
    << <<"N","o">>, <<"N","o","t"," ","q","u","i","t","e">>, <<"D","i","f","f","e","r","e","n","t"," ","c","a","t","e","g","o","r","y">> >>

CATEGORY_OPTIONS ==
    << <<"T","e","c","h","n","i","c","a","l"," ","I","s","s","u","e">>, <<"B","i","l","l","i","n","g"," ","&"," ","P","a","y","m","e","n","t","s">>, <<"A","c","c","o","u","n","t"," ","M","a","n","a","g","e","m","e","n","t">>,
       <<"F","e","a","t","u","r","e"," ","R","e","q","u","e","s","t">>, <<"B","u","g"," ","R","e","p","o","r","t">>, <<"G","e","n","e","r","a","l"," ","I","n","q","u","i","r","y">>, <<"O","t","h","e","r">> >>

\* isConversationComplete with the confirmation step counted as complete
isCompleteFromConfirmation(step) == step \in {FINAL_CONFIRMATION, TICKET_CREATED}

isConversationComplete(step) == step = TICKET_CREATED

----------------------------------------------------------------------------
(* lib/conversation engine: detectCategory                                 *)

technicalKeywords ==
    << <<"l","o","g","i","n">>,
       <<"p","a","s","s","w","o","r","d">>,
       <<"e","r","r","o","r">>,
       <<"b","u","g">>,
       <<"c","r","a","s","h">>,
       <<"b","r","o","k","e","n">>,
       <<"n","o","t"," ","w","o","r","k","i","n","g">>,
       <<"s","e","r","v","e","r">>,
       <<"l","o","a","d","i","n","g">>,
       <<"s","l","o","w">>,
       <<"p","e","r","f","o","r","m","a","n","c","e">>,
       <<"d","a","t","a","b","a","s","e">>,
       <<"a","p","i">>,
       <<"w","e","b","s","i","t","e">>,
       <<"a","p","p">>,
       <<"s","y","s","t","e","m">>,
       <<"c","o","n","n","e","c","t","i","o","n">>,
       <<"t","i","m","e","o","u","t">>,
       <<"c","o","d","e">> >>

billingKeywords ==
    << <<"p","a","y","m","e","n","t">>,
       <<"b","i","l","l","i","n","g">>,
       <<"c","h","a","r","g","e">>,
       <<"i","n","v","o","i","c","e">>,
       <<"c","r","e","d","i","t"," ","c","a","r","d">>,
       <<"s","u","b","s","c","r","i","p","t","i","o","n">>,
       <<"r","e","f","u","n","d">>,
       <<"m","o","n","e","y">>,
       <<"c","o","s","t">>,
       <<"p","r","i","c","e">>,
       <<"f","e","e">>,
       <<"u","p","g","r","a","d","e">>,
       <<"d","o","w","n","g","r","a","d","e">> >>

accountKeywords ==
    << <<"a","c","c","o","u","n","t">>,
       <<"p","r","o","f","i","l","e">>,
       <<"s","e","t","t","i","n","g","s">>,
       <<"e","m","a","i","l">>,
       <<"u","s","e","r","n","a","m","e">>,
       <<"a","c","c","e","s","s">>,
       <<"p","e","r","m","i","s","s","i","o","n">>,
       <<"d","e","l","e","t","e">>,
       <<"u","p","d","a","t","e">>,
       <<"c","h","a","n","g","e">>,
       <<"m","o","d","i","f","y">> >>

featureKeywords ==
    << <<"f","e","a","t","u","r","e">>,
       <<"r","e","q","u","e","s","t">>,
       <<"s","u","g","g","e","s","t">>,
       <<"i","m","p","r","o","v","e","m","e","n","t">>,
       <<"e","n","h","a","n","c","e","m","e","n","t">>,
       <<"a","d","d">>,
       <<"n","e","w">>,
       <<"w","i","s","h">>,
       <<"w","o","u","l","d"," ","l","i","k","e">>,
       <<"c","o","u","l","d"," ","y","o","u">> >>

bugKeywords ==
    << <<"b","u","g">>,
       <<"i","s","s","u","e">>,
       <<"p","r","o","b","l","e","m">>,
       <<"e","r","r","o","r">>,
       <<"g","l","i","t","c","h">>,
       <<"m","a","l","f","u","n","c","t","i","o","n">>,
       <<"d","e","f","e","c","t">>,
       <<"w","r","o","n","g">>,
       <<"i","n","c","o","r","r","e","c","t">>,
       <<"u","n","e","x","p","e","c","t","e","d">> >>

\* categoryScores: the object's entries in insertion order, each <<key, score>>
categoryScores(description) ==
    << <<TECHNICAL, CountIncluded(technicalKeywords, description)>>,
       <<BILLING, CountIncluded(billingKeywords, description)>>,
       <<ACCOUNT, CountIncluded(accountKeywords, description)>>,
       <<FEATURE_REQUEST, CountIncluded(featureKeywords, description)>>,
       <<BUG_REPORT, CountIncluded(bugKeywords, description)>>,
       <<GENERAL, 0>>,
       <<OTHER_CATEGORY, 0>> >>

\* the reducer of Object.entries(categoryScores).reduce: (a, b) => a > b ? a : b
KeepFirstOnTie(a, b) == IF a[2] >= b[2] THEN a ELSE b

TopOfPair(a, b) == IF a[2] > b[2] THEN a ELSE b

\* Array.prototype.reduce without an initial value, left to right: the
\* accumulator after the first i entries
RECURSIVE ReduceUpTo(_, _)
ReduceUpTo(entries, i) ==
    IF i = 1 THEN entries[1]
    ELSE LET acc == ReduceUpTo(entries, i - 1)
         IN  TopOfPair(acc, entries[i])

detectCategory(issueDescription) ==
    LET description == ToLowerCase(issueDescription)
        entries == categoryScores(description)
        topCategory == ReduceUpTo(entries, Len(entries))
    IN  IF topCategory[2] > 0 THEN topCategory[1] ELSE GENERAL

----------------------------------------------------------------------------
(* generateIssueTitle, validateInput                                       *)

TitleMaxLength == 60

TitleTruncateLength == 50

Ellipsis == <<".", ".", ".">>

\* the cleaning step without the whitespace collapse
TrimOnly(description) == Trim(description)

CleanDescription(description) == CollapseWhitespace(Trim(description))

generateIssueTitle(description) ==
    LET cleaned == CleanDescription(description)
        firstSentence == SplitFirst(cleaned, ".")
    IN  IF Len(cleaned) <= TitleMaxLength THEN cleaned
        ELSE IF Len(firstSentence) <= TitleMaxLength THEN firstSentence
        ELSE Trim(Substring0(cleaned, TitleTruncateLength)) \o Ellipsis

NameMinLength == 2

NameMaxLength == 50

IssueMinLength == 10

DetailMinLength == 5

\* validateInput with every case falling through to the default
validateInputAcceptAll(input, step) == TRUE

\* validateInput with the name's lower bound exclusive
validateInputStrictName(input, step) ==
    LET trimmedInput == Trim(input)
    IN  CASE step = COLLECT_NAME ->
               Len(trimmedInput) > NameMinLength /\ Len(trimmedInput) <= NameMaxLength
          [] step = COLLECT_ISSUE -> Len(trimmedInput) >= IssueMinLength
          [] step = CLARIFY_DETAILS -> Len(trimmedInput) >= DetailMinLength
          [] OTHER -> TRUE

validateInput(input, step) ==
    LET trimmedInput == Trim(input)
    IN  CASE step = COLLECT_NAME ->
               Len(trimmedInput) >= NameMinLength /\ Len(trimmedInput) <= NameMaxLength
          [] step = COLLECT_ISSUE -> Len(trimmedInput) >= IssueMinLength
          [] step = CLARIFY_DETAILS -> Len(trimmedInput) >= DetailMinLength
          [] step = CONFIRM_CATEGORY -> TRUE
          [] step = FINAL_CONFIRMATION -> TRUE
          [] OTHER -> TRUE

----------------------------------------------------------------------------
(* initializeConversation, processUserInput                                *)

\* A Message.  A USER message carries its text in content; an ASSISTANT
\* message carries the AI_PROMPTS entry (or literal reprompt) it was built
\* from and the values interpolated into it.  Ids and timestamps are omitted.
AssistantEcho(text) ==
    [role |-> ASSISTANT, content |-> text, prompt |-> "", args |-> <<>>]

UserMessage(text) ==
    [role |-> USER, content |-> text, prompt |-> "", args |-> <<>>]

AssistantMessage(prompt, args) ==
    [role |-> ASSISTANT, content |-> <<>>, prompt |-> prompt, args |-> args]

initializeConversation ==
    [currentStep |-> GREETING,
     collectedData |->
        [userName |-> None, issueDescription |-> None, issueTitle |-> None,
         suggestedCategory |-> Undefined, confirmedCategory |-> Undefined,
         additionalDetails |-> <<>>],
     messages |-> <<AssistantMessage("GREETING", <<>>)>>,
     isComplete |-> FALSE,
     completedAt |-> FALSE]

\* what one case of the switch leaves in the locals of processUserInput
Outcome(data, nextStep, prompt, args, type, suggestions, categoryOptions) ==
    [data |-> data, nextStep |-> nextStep, prompt |-> prompt, args |-> args,
     type |-> type, suggestions |-> suggestions, categoryOptions |-> categoryOptions]

\* /^(yes|y|correct|right|ok|okay|sure|yep|yeah)$/i
CategoryAffirmatives ==
    { <<"y","e","s">>, <<"y">>, <<"c","o","r","r","e","c","t">>, <<"r","i","g","h","t">>, <<"o","k">>, <<"o","k","a","y">>, <<"s","u","r","e">>,
      <<"y","e","p">>, <<"y","e","a","h">> }

\* /^(yes|y|correct|create|submit|ok|okay|sure|yep|yeah)$/i
FinalAffirmatives ==
    { <<"y","e","s">>, <<"y">>, <<"c","o","r","r","e","c","t">>, <<"c","r","e","a","t","e">>, <<"s","u","b","m","i","t">>, <<"o","k">>, <<"o","k","a","y">>,
      <<"s","u","r","e">>, <<"y","e","p">>, <<"y","e","a","h">> }

MatchesQuickReplyYes(trimmedInput) ==
    \E i \in 1..Len(QUICK_REPLIES_YES) :
        ToLowerCase(QUICK_REPLIES_YES[i]) = ToLowerCase(trimmedInput)

isPositiveResponse(trimmedInput) ==
    \/ ToLowerCase(trimmedInput) \in CategoryAffirmatives
    \/ MatchesQuickReplyYes(trimmedInput)

isConfirmed(trimmedInput) ==
    \/ ToLowerCase(trimmedInput) \in FinalAffirmatives
    \/ MatchesQuickReplyYes(trimmedInput)

\* the predicate of the find: the lower-cased input contains the category
\* value or its lower-cased display name
NamesCategory(lowered, category) ==
    \/ Includes(lowered, CategoryChars(category))
    \/ Includes(lowered, ToLowerCase(getCategoryDisplayName(category)))

\* the last match from index i instead of the first
FindLastCategoryFrom(lowered, i) ==
    LET named == { j \in i..Len(TicketCategory) : NamesCategory(lowered, TicketCategory[j]) }
    IN  IF named = {} THEN Undefined
        ELSE TicketCategory[CHOOSE j \in named : \A k \in named : k <= j]

\* Array.prototype.find from index i: the first match, or Undefined
RECURSIVE FindCategoryFrom(_, _)
FindCategoryFrom(lowered, i) ==
    IF i > Len(TicketCategory) THEN Undefined
    ELSE IF NamesCategory(lowered, TicketCategory[i]) THEN TicketCategory[i]
    ELSE FindCategoryFrom(lowered, i + 1)

mentionedCategory(trimmedInput) == FindCategoryFrom(ToLowerCase(trimmedInput), 1)

\* case GREETING / COLLECT_NAME
CollectNameCase(trimmedInput, currentStep, data) ==
    IF validateInput(trimmedInput, COLLECT_NAME)
    THEN Outcome([data EXCEPT !.userName = Some(trimmedInput)], COLLECT_ISSUE,
                 "COLLECT_ISSUE", <<trimmedInput>>, "question", <<>>, <<>>)
    ELSE Outcome(data, currentStep, "NAME_REPROMPT", <<>>, "question", <<>>, <<>>)

\* case COLLECT_ISSUE
CollectIssueCase(trimmedInput, currentStep, data) ==
    IF validateInput(trimmedInput, COLLECT_ISSUE)
    THEN Outcome([data EXCEPT !.issueDescription = Some(trimmedInput),
                              !.issueTitle = Some(generateIssueTitle(trimmedInput))],
                 CLARIFY_DETAILS, "CLARIFY_DETAILS", <<>>, "question", <<>>, <<>>)
    ELSE Outcome(data, currentStep, "ISSUE_REPROMPT", <<>>, "question", <<>>, <<>>)

\* `${issueDescription}`: an undefined value interpolates as 'undefined'
Interpolate(opt) == IF opt = None THEN <<"u","n","d","e","f","i","n","e","d">> ELSE opt[1]

\* the details case moving on without the category being confirmed
ClarifyDetailsSkipsCategory(trimmedInput, currentStep, data) ==
    IF validateInput(trimmedInput, CLARIFY_DETAILS)
    THEN Outcome([data EXCEPT
                     !.additionalDetails = Append(@, trimmedInput),
                     !.suggestedCategory = detectCategory(trimmedInput)],
                 FINAL_CONFIRMATION, "FINAL_CONFIRMATION", <<>>, "confirmation", <<>>, <<>>)
    ELSE Outcome(data, currentStep, "DETAILS_REPROMPT", <<>>, "question", <<>>, <<>>)

\* case CLARIFY_DETAILS
ClarifyDetailsCase(trimmedInput, currentStep, data) ==
    IF validateInput(trimmedInput, CLARIFY_DETAILS)
    THEN LET fullDescription ==
                 Interpolate(data.issueDescription) \o <<" ">> \o trimmedInput
             detectedCategory == detectCategory(fullDescription)
         IN  Outcome([data EXCEPT
                         !.additionalDetails = Append(@, trimmedInput),
                         !.suggestedCategory = detectedCategory],
                     SUGGEST_CATEGORY, "SUGGEST_CATEGORY",
                     <<getCategoryDisplayName(detectedCategory)>>,
                     "category_suggestion",
                     QUICK_REPLIES_YES \o QUICK_REPLIES_NO, <<>>)
    ELSE Outcome(data, currentStep, "DETAILS_REPROMPT", <<>>, "question", <<>>, <<>>)

\* the else branch of the category case when no category is mentioned
CategoryRejected(data) ==
    Outcome(data, CONFIRM_CATEGORY, "CATEGORY_CHOICE", <<>>,
            "category_suggestion", <<>>, CATEGORY_OPTIONS)

\* case SUGGEST_CATEGORY / CONFIRM_CATEGORY
CategoryCase(trimmedInput, currentStep, data) ==
    IF isPositiveResponse(trimmedInput)
    THEN Outcome([data EXCEPT !.confirmedCategory = data.suggestedCategory],
                 FINAL_CONFIRMATION, "FINAL_CONFIRMATION",
                 <<OrElse(data.userName, <<"U","s","e","r">>),
                   OrElse(data.issueTitle, <<"S","u","p","p","o","r","t"," ","R","e","q","u","e","s","t">>),
                   getCategoryDisplayName(data.suggestedCategory)>>,
                 "confirmation",
                 QUICK_REPLIES_YES \o << <<"M","a","k","e"," ","c","h","a","n","g","e","s">> >>, <<>>)
    ELSE LET mentioned == mentionedCategory(trimmedInput)
         IN  IF mentioned # Undefined
             THEN Outcome([data EXCEPT !.suggestedCategory = mentioned,
                                       !.confirmedCategory = mentioned],
                          FINAL_CONFIRMATION, "FINAL_CONFIRMATION",
                          <<OrElse(data.userName, <<"U","s","e","r">>),
                            OrElse(data.issueTitle, <<"S","u","p","p","o","r","t"," ","R","e","q","u","e","s","t">>),
                            getCategoryDisplayName(mentioned)>>,
                          "confirmation", <<>>, CATEGORY_OPTIONS)
             ELSE CategoryRejected(data)

\* the rejection branch of the final confirmation restarting at the greeting
FinalRejectedToGreeting(data) ==
    Outcome(data, GREETING, "WHAT_TO_CHANGE", <<>>, "question",
            << <<"C","h","a","n","g","e"," ","n","a","m","e">>, <<"C","h","a","n","g","e"," ","d","e","s","c","r","i","p","t","i","o","n">>, <<"C","h","a","n","g","e"," ","c","a","t","e","g","o","r","y">>,
               <<"S","t","a","r","t"," ","o","v","e","r">> >>, <<>>)

\* the else branch of the final confirmation case
FinalRejected(data) ==
    Outcome(data, COLLECT_NAME, "WHAT_TO_CHANGE", <<>>, "question",
            << <<"C","h","a","n","g","e"," ","n","a","m","e">>, <<"C","h","a","n","g","e"," ","d","e","s","c","r","i","p","t","i","o","n">>, <<"C","h","a","n","g","e"," ","c","a","t","e","g","o","r","y">>,
               <<"S","t","a","r","t"," ","o","v","e","r">> >>, <<>>)

\* case FINAL_CONFIRMATION
FinalConfirmationCase(trimmedInput, currentStep, data) ==
    IF isConfirmed(trimmedInput)
    THEN Outcome([data EXCEPT
                     !.issueTitle = Some(OrElse(@, <<"S","u","p","p","o","r","t"," ","R","e","q","u","e","s","t">>)),
                     !.confirmedCategory = IF @ = Undefined THEN GENERAL ELSE @],
                 TICKET_CREATED, "TICKET_CREATED", <<>>, "success", <<>>, <<>>)
    ELSE FinalRejected(data)

\* default
DefaultCase(currentStep, data) ==
    Outcome(data, currentStep, "ERROR", <<>>, "error", <<>>, <<>>)

processUserInput(userInput, currentConversation) ==
    LET trimmedInput == Trim(userInput)
        currentStep == currentConversation.currentStep
        updatedMessages ==
            Append(currentConversation.messages, UserMessage(trimmedInput))
        data == currentConversation.collectedData
        r == CASE currentStep \in {GREETING, COLLECT_NAME} ->
                    CollectNameCase(trimmedInput, currentStep, data)
               [] currentStep = COLLECT_ISSUE ->
                    CollectIssueCase(trimmedInput, currentStep, data)
               [] currentStep = CLARIFY_DETAILS ->
                    ClarifyDetailsCase(trimmedInput, currentStep, data)
               [] currentStep \in {SUGGEST_CATEGORY, CONFIRM_CATEGORY} ->
                    CategoryCase(trimmedInput, currentStep, data)
               [] currentStep = FINAL_CONFIRMATION ->
                    FinalConfirmationCase(trimmedInput, currentStep, data)
               [] OTHER -> DefaultCase(currentStep, data)
    IN  [updatedConversation |->
            [currentConversation EXCEPT
                !.currentStep = r.nextStep,
                !.collectedData = r.data,
                !.messages = Append(updatedMessages, AssistantMessage(r.prompt, r.args)),
                !.isComplete = isConversationComplete(r.nextStep),
                !.completedAt = isConversationComplete(r.nextStep)],
         aiResponse |->
            [type |-> r.type, prompt |-> r.prompt, nextStep |-> r.nextStep,
             suggestions |-> r.suggestions, categoryOptions |-> r.categoryOptions,
             requiresInput |-> r.nextStep # TICKET_CREATED]]

\* currentConversation as the call leaves it.  updatedCollectedData is a
\* shallow copy of currentConversation.collectedData, so its additionalDetails
\* is the argument's own array, and the push of the CLARIFY_DETAILS case is
\* made on that array; every other assignment is made on the copies.
ArgumentAfterCall(userInput, currentConversation) ==
    LET trimmedInput == Trim(userInput)
    IN  IF /\ currentConversation.currentStep = CLARIFY_DETAILS
           /\ validateInput(trimmedInput, CLARIFY_DETAILS)
        THEN [currentConversation EXCEPT
                 !.collectedData.additionalDetails = Append(@, trimmedInput)]
        ELSE currentConversation

stepOrder ==
    <<GREETING, COLLECT_NAME, COLLECT_ISSUE, CLARIFY_DETAILS, SUGGEST_CATEGORY,
      CONFIRM_CATEGORY, FINAL_CONFIRMATION, TICKET_CREATED>>

\* stepOrder.indexOf(step), zero-based, -1 when absent
IndexOfStep(step) ==
    IF \E i \in 1..Len(stepOrder) : stepOrder[i] = step
    THEN (CHOOSE i \in 1..Len(stepOrder) : stepOrder[i] = step) - 1
    ELSE -1

\* Math.round(n / d * 100) for n >= 0, d > 0
RoundPercent(n, d) == (200 * n + d) \div (2 * d)

getProgressPercentage(step) ==
    IF step = ERROR THEN 0
    ELSE LET currentIndex == IndexOfStep(step)
         IN  IF currentIndex >= 0
             THEN RoundPercent(currentIndex, Len(stepOrder) - 1)
             ELSE 0

----------------------------------------------------------------------------
(* ApiClient.request: the retry loop                                       *)

VALIDATION_ERROR == "validation_error"
NOT_FOUND == "not_found"
UNAUTHORIZED == "unauthorized"
FORBIDDEN == "forbidden"
INTERNAL_ERROR == "internal_error"
NETWORK_ERROR == "network_error"
TIMEOUT == "timeout"

\* the factor of the linear backoff, in milliseconds
BackoffBase == 1000

\* getErrorType with 408 falling to the default
getErrorTypeNoTimeout(status) ==
    CASE status = 400 -> VALIDATION_ERROR
      [] status = 401 -> UNAUTHORIZED
      [] status = 403 -> FORBIDDEN
      [] status = 404 -> NOT_FOUND
      [] OTHER -> INTERNAL_ERROR

\* switch (true): the first matching case wins
getErrorType(status) ==
    CASE status = 400 -> VALIDATION_ERROR
      [] status = 401 -> UNAUTHORIZED
      [] status = 403 -> FORBIDDEN
      [] status = 404 -> NOT_FOUND
      [] status = 408 -> TIMEOUT
      [] status >= 500 -> INTERNAL_ERROR
      [] OTHER -> INTERNAL_ERROR

\* an Error value: name, and for an ApiClientError its type, its status
\* (0 when undefined) and details.originalError
NoError == [name |-> "none", type |-> "none", status |-> 0, originalError |-> "none"]

ApiClientError(type, status, originalError) ==
    [name |-> "ApiClientError", type |-> type, status |-> status,
     originalError |-> originalError]

PlainError(name) ==
    [name |-> name, type |-> "none", status |-> 0, originalError |-> "none"]

\* What one attempt can meet: a 2xx response whose body parses, a 2xx
\* response whose body does not parse, a non-2xx response, or a rejected
\* fetch (network failure, or the request's AbortSignal timing out).
Outcomes ==
    {[kind |-> "ok", status |-> 200, name |-> "none"],
     [kind |-> "badJson", status |-> 200, name |-> "SyntaxError"]}
    \cup {[kind |-> "http", status |-> s, name |-> "ApiClientError"] :
            s \in {400, 401, 403, 404, 408, 429, 500, 503}}
    \cup {[kind |-> "reject", status |-> 0, name |-> n] :
            n \in {"TypeError", "TimeoutError"}}

\* the value the catch block receives for a failed attempt
CaughtError(outcome) ==
    IF outcome.kind = "http"
    THEN ApiClientError(getErrorType(outcome.status), outcome.status, "none")
    ELSE PlainError(outcome.name)

\* the client-error test with the bound set at 404
IsClientErrorBelow404(error) ==
    error.name = "ApiClientError" /\ error.status # 0 /\ error.status < 404

\* error instanceof ApiClientError && error.status && error.status < 500
IsClientError(error) ==
    error.name = "ApiClientError" /\ error.status # 0 /\ error.status < 500

\* the last-attempt test stopping one attempt early
IsLastAttemptEarly(attempt, retries) == attempt + 1 >= retries

\* attempt === retries
IsLastAttempt(attempt, retries) == attempt = retries

\* the statements after the loop: what request() throws once retries are spent
AfterLoop(lastError) ==
    IF lastError.name = "ApiClientError" THEN lastError
    ELSE ApiClientError(NETWORK_ERROR, 0, lastError.name)

IdleApi ==
    [pc |-> "idle", retries |-> 0, attempt |-> 0, lastError |-> NoError,
     log |-> <<>>, fetches |-> 0, sleeps |-> <<>>, thrown |-> NoError]

\* retry counts explored
MaxRetries == 2

\* request(endpoint, {retries}): runs up to the first await fetch(...)
Request(retries) ==
    /\ api.pc = "idle"
    /\ api' = [api EXCEPT !.pc = "fetching", !.retries = retries,
                          !.attempt = 0, !.fetches = 1]
    /\ UNCHANGED <<conv, prev, passed, lastInput, aiResponse, calls, fn, fnIn, fnOut, tk, ws, ch>>

\* the awaited fetch settles: the rest of the try block and the catch block,
\* up to the return, the throw, or the await sleep(...)
FetchSettles(outcome) ==
    /\ api.pc = "fetching"
    /\ LET logged == Append(api.log, outcome)
           error == CaughtError(outcome)
       IN  api' =
             IF outcome.kind = "ok"
             THEN [api EXCEPT !.pc = "returned", !.log = logged]
             ELSE IF IsClientError(error)
             THEN [api EXCEPT !.pc = "thrown", !.log = logged,
                              !.lastError = error, !.thrown = error]
             ELSE IF IsLastAttempt(api.attempt, api.retries)
             THEN [api EXCEPT !.pc = "thrown", !.log = logged,
                              !.lastError = error, !.thrown = AfterLoop(error)]
             ELSE [api EXCEPT !.pc = "sleeping", !.log = logged,
                              !.lastError = error,
                              !.sleeps = Append(@, BackoffBase * (api.attempt + 1))]
    /\ UNCHANGED <<conv, prev, passed, lastInput, aiResponse, calls, fn, fnIn, fnOut, tk, ws, ch>>

\* the awaited sleep ends: attempt++, the loop test, and the next fetch
SleepElapses ==
    /\ api.pc = "sleeping"
    /\ api' =
         IF api.attempt + 1 <= api.retries
         THEN [api EXCEPT !.pc = "fetching", !.attempt = @ + 1, !.fetches = @ + 1]
         ELSE [api EXCEPT !.pc = "thrown", !.attempt = @ + 1,
                          !.thrown = AfterLoop(api.lastError)]
    /\ UNCHANGED <<conv, prev, passed, lastInput, aiResponse, calls, fn, fnIn, fnOut, tk, ws, ch>>

----------------------------------------------------------------------------
(* The ticket collection view-model: the useTickets hook                   *)
(*                                                                         *)
(* tk.view is the hook's React state after the latest render, so the       *)
(* callbacks of the latest render close over tk.view.  A callback memoised *)
(* with an empty dependency list closes over the first render instead.     *)

OPEN == "open"
RESOLVED == "resolved"
CLOSED == "closed"

DEFAULT_PAGE_SIZE == 20

\* a TicketFilter with no field present; an optional field is None or Some(value)
DEFAULT_FILTERS ==
    [status |-> None, category |-> None, priority |-> None, assignedTo |-> None,
     dateFrom |-> None, dateTo |-> None]

DEFAULT_PAGINATION ==
    [page |-> 1, limit |-> DEFAULT_PAGE_SIZE, total |-> 0, totalPages |-> 0,
     hasNext |-> FALSE, hasPrev |-> FALSE]

\* the hook's state in its first render
FirstRender ==
    [tickets |-> <<>>, stats |-> None, isLoading |-> FALSE, error |-> None,
     pagination |-> DEFAULT_PAGINATION,
     filters |-> DEFAULT_FILTERS, filtersIsDefault |-> TRUE,
     searchQuery |-> <<>>, sortBy |-> "createdAt", sortOrder |-> "desc"]

\* number of tickets the backend holds
TotalTickets == 45

TotalPages(limit) == (TotalTickets + limit - 1) \div limit

ServerTicket(id) == [id |-> id, status |-> OPEN]

\* the tickets of one page of the backend's list
ServerPage(page, limit) ==
    LET first == (page - 1) * limit
        rest == TotalTickets - first
        size == IF rest < 0 THEN 0 ELSE IF rest < limit THEN rest ELSE limit
    IN  [i \in 1..size |-> ServerTicket(first + i)]

ServerPagination(page, limit) ==
    [page |-> page, limit |-> limit, total |-> TotalTickets,
     totalPages |-> TotalPages(limit),
     hasNext |-> page < TotalPages(limit), hasPrev |-> page > 1]

\* the page in the requested order: the backend lists its tickets by the
\* sort sent to it, the ascending list being the descending one reversed
ServerPageOrdered(page, limit, sortOrder) ==
    IF sortOrder = "asc"
    THEN [i \in 1..Len(ServerPage(page, limit)) |->
              ServerTicket(TotalTickets + 1 - ServerPage(page, limit)[i].id)]
    ELSE ServerPage(page, limit)

\* data.data of a successful ticketAPI.getAll(params)
GetTicketsResponse(params) ==
    [data |-> ServerPageOrdered(params.page, params.limit, params.sortOrder),
     pagination |-> ServerPagination(params.page, params.limit)]

\* data.data of a successful ticketAPI.update(id, updates)
UpdateTicketResponse(id, updates) == [id |-> id, status |-> updates.status]

\* searchQuery.trim() || undefined
SearchParam(searchQuery) ==
    IF Trim(searchQuery) = <<>> THEN None ELSE Some(Trim(searchQuery))

\* the filter parameters getTickets puts in the query string of a request: a
\* list when it is non-empty, assignedTo and searchQuery when truthy, and
\* nothing else of the filters.  The enum values hold no comma, so the
\* comma-joined list is held as the list.
TicketsQuery(params) ==
    [status |-> IF params.filters.status # None /\ params.filters.status[1] # <<>>
                THEN params.filters.status ELSE None,
     priority |-> IF params.filters.priority # None /\ params.filters.priority[1] # <<>>
                  THEN params.filters.priority ELSE None,
     category |-> IF params.filters.category # None /\ params.filters.category[1] # <<>>
                  THEN params.filters.category ELSE None,
     assignedTo |-> IF params.filters.assignedTo # None /\ params.filters.assignedTo[1] # <<>>
                    THEN params.filters.assignedTo ELSE None,
     searchQuery |-> IF params.searchQuery # None /\ params.searchQuery[1] # <<>>
                     THEN params.searchQuery ELSE None]

\* the GetTicketsRequest loadTickets(reset) builds from the state it closes over
LoadParams(closure, reset) ==
    [filters |-> closure.filters,
     searchQuery |-> SearchParam(closure.searchQuery),
     page |-> IF reset THEN 1 ELSE closure.pagination.page,
     limit |-> DEFAULT_PAGE_SIZE,
     sortBy |-> closure.sortBy,
     sortOrder |-> closure.sortOrder]

NoParams ==
    [filters |-> DEFAULT_FILTERS, searchQuery |-> None, page |-> 0, limit |-> 0,
     sortBy |-> "", sortOrder |-> ""]

NoUpdates == [status |-> ""]

\* a ticketAPI.getAll call awaiting its response
LoadRequest(closure, reset, via) ==
    [kind |-> "load", via |-> via, reset |-> reset,
     params |-> LoadParams(closure, reset), id |-> 0, updates |-> NoUpdates]

\* a ticketAPI.update call awaiting its response
UpdateRequest(id, updates) ==
    [kind |-> "update", via |-> "updateTicket", reset |-> FALSE,
     params |-> NoParams, id |-> id, updates |-> updates]

\* loadTickets up to its await: setIsLoading(true); setError(null)
LoadStarted(view) == [view EXCEPT !.isLoading = TRUE, !.error = None]

\* setPagination(prev => ({ ...prev, page }))
WithPage(view, page) == [view EXCEPT !.pagination.page = page]

\* a failing load empties the collection
LoadFailedDropsTickets(view, message) ==
    [view EXCEPT !.error = Some(message), !.isLoading = FALSE, !.tickets = <<>>]

\* loadTickets after a failed await: setError(message); setIsLoading(false)
LoadFailed(view, message) ==
    [view EXCEPT !.error = Some(message), !.isLoading = FALSE]

\* a reset load arriving while tickets are held leaves them in place
LoadSucceededKeepsHeld(view, reset, response) ==
    [view EXCEPT
        !.tickets = IF reset /\ @ # <<>> THEN @
                    ELSE IF reset THEN response.data ELSE @ \o response.data,
        !.pagination = response.pagination,
        !.isLoading = FALSE]

\* loadTickets after a successful await
LoadSucceeded(view, reset, response) ==
    [view EXCEPT
        !.tickets = IF reset THEN response.data ELSE @ \o response.data,
        !.pagination = response.pagination,
        !.isLoading = FALSE]

\* the updated ticket is put in front of the collection
ReplaceFirstPosition(tickets, id, ticket) ==
    [i \in 1..Len(tickets) |-> IF i = 1 THEN ticket ELSE tickets[i]]

\* prev.map(ticket => ticket.id === id ? data.data : ticket)
ReplaceTicket(tickets, id, ticket) ==
    [i \in 1..Len(tickets) |-> IF tickets[i].id = id THEN ticket ELSE tickets[i]]

\* updateTicket after a successful await
UpdateSucceeded(view, id, ticket) ==
    [view EXCEPT !.tickets = ReplaceTicket(@, id, ticket)]

\* updateTicket after a failed await: setError(message)
UpdateFailed(view, message) == [view EXCEPT !.error = Some(message)]

\* the "filters, sortBy, sortOrder" effect runs after a render that changed one
EffectRuns(filtersChanged, old, new) ==
    \/ filtersChanged
    \/ old.sortBy # new.sortBy
    \/ old.sortOrder # new.sortOrder


\* an optional array or string is populated when it is present and not empty
PopulatedWhenPresent(field) == field # None

\* "filters.status && filters.status.length > 0", "if (filters.assignedTo)"
Populated(field) == field # None /\ field[1] # <<>>

\* Array.prototype.includes
IncludesValue(array, value) == \E i \in 1..Len(array) : array[i] = value

\* the predicate the search filter applies to one ticket
MatchesSearch(ticket, searchQuery) ==
    LET query == ToLowerCase(searchQuery)
    IN  \/ Includes(ToLowerCase(ticket.title), query)
        \/ Includes(ToLowerCase(ticket.description), query)
        \/ Includes(ToLowerCase(ticket.userName), query)
        \/ Includes(ToLowerCase(ticket.id), query)

\* a ticket that survives every filter step of filteredTickets
KeptByFilters(ticket, filters, searchQuery) ==
    /\ Populated(filters.status) => IncludesValue(filters.status[1], ticket.status)
    /\ Populated(filters.category) => IncludesValue(filters.category[1], ticket.category)
    /\ Populated(filters.priority) => IncludesValue(filters.priority[1], ticket.priority)
    /\ Populated(filters.assignedTo) => ticket.assignedTo = filters.assignedTo
    /\ Trim(searchQuery) # <<>> => MatchesSearch(ticket, searchQuery)

filteredTickets(tickets, filters, searchQuery) ==
    SelectSeq(tickets, LAMBDA ticket : KeptByFilters(ticket, filters, searchQuery))

\* messages of the errors a request can end with
ApiErrorMessage == <<"HTTP 500: Internal Server Error">>
ThrownMessage == <<"Cannot read properties of undefined">>

NoEvent == [op |-> "none", requests |-> <<>>, done |-> <<>>, outcome |-> ""]

IdleTickets ==
    [mounted |-> FALSE, view |-> FirstRender, inflight |-> <<>>,
     statsInFlight |-> 0, timer |-> None,
     issued |-> 0, last |-> NoEvent]

\* ticket requests (loads and updates) issued in one run of the view-model
MaxRequests == 3

\* one handler ran: the render after it, the requests it sent, the debounce timer
Handled(op, view, requests, stats, timer) ==
    /\ tk.mounted
    /\ tk.issued + Len(requests) <= MaxRequests
    /\ tk' = [tk EXCEPT
                !.view = view,
                !.inflight = @ \o requests,
                !.statsInFlight = @ + stats,
                !.timer = timer,
                !.issued = @ + Len(requests),
                !.last = [NoEvent EXCEPT !.op = op, !.requests = requests]]
    /\ UNCHANGED <<conv, prev, passed, lastInput, aiResponse, calls, fn, fnIn, fnOut, api, ws, ch>>

\* the render after a setter, followed by the effect if its dependencies changed
Rendered(op, filtersChanged, view) ==
    IF EffectRuns(filtersChanged, tk.view, view)
    THEN Handled(op, LoadStarted(view), <<LoadRequest(view, TRUE, "effect")>>, 1,
                 tk.timer)
    ELSE Handled(op, view, <<>>, 0, tk.timer)

\* first render of SupportDashboard: the hook's effect, then the dashboard's
Mount ==
    /\ ~tk.mounted
    /\ tk' = [tk EXCEPT
                !.mounted = TRUE,
                !.view = LoadStarted(FirstRender),
                !.inflight = <<LoadRequest(FirstRender, TRUE, "effect"),
                               LoadRequest(FirstRender, TRUE, "mount")>>,
                !.statsInFlight = 1,
                !.issued = 2,
                !.last = [NoEvent EXCEPT !.op = "mount", !.requests =
                            <<LoadRequest(FirstRender, TRUE, "effect"),
                              LoadRequest(FirstRender, TRUE, "mount")>>]]
    /\ UNCHANGED <<conv, prev, passed, lastInput, aiResponse, calls, fn, fnIn, fnOut, api, ws, ch>>

setFilters(newFilters) ==
    Rendered("setFilters", TRUE,
             WithPage([tk.view EXCEPT !.filters = newFilters @@ @,
                                      !.filtersIsDefault = FALSE], 1))

setSearchQuery(query) ==
    Handled("setSearchQuery", WithPage([tk.view EXCEPT !.searchQuery = query], 1),
            <<>>, 0, Some(query))

\* the debounce period elapsed: the debounced callback of the first render runs
DebounceElapses ==
    /\ tk.timer # None
    /\ Handled("debouncedSearch", LoadStarted(tk.view),
               <<LoadRequest(FirstRender, TRUE, "debounce")>>, 0, None)

setSorting(newSortBy, newSortOrder) ==
    Rendered("setSorting", FALSE,
             WithPage([tk.view EXCEPT !.sortBy = newSortBy,
                                      !.sortOrder = newSortOrder], 1))

clearFilters ==
    Rendered("clearFilters", ~tk.view.filtersIsDefault,
             [tk.view EXCEPT !.filters = DEFAULT_FILTERS,
                             !.filtersIsDefault = TRUE,
                             !.searchQuery = <<>>,
                             !.sortBy = "createdAt",
                             !.sortOrder = "desc",
                             !.pagination = DEFAULT_PAGINATION])

refreshTickets ==
    Handled("refreshTickets", LoadStarted(WithPage(tk.view, 1)),
            <<LoadRequest(tk.view, TRUE, "refresh")>>, 0, tk.timer)

\* loadMore sees pagination.hasNext and isLoading of the latest render
LoadMoreReturnsEarly(view) == ~view.pagination.hasNext \/ view.isLoading

loadMore ==
    IF LoadMoreReturnsEarly(tk.view)
    THEN Handled("loadMore", tk.view, <<>>, 0, tk.timer)
    ELSE Handled("loadMore",
                 LoadStarted(WithPage(tk.view, tk.view.pagination.page + 1)),
                 <<LoadRequest(tk.view, FALSE, "loadMore")>>, 0, tk.timer)

updateTicket(id, updates) ==
    Handled("updateTicket", [tk.view EXCEPT !.error = None],
            <<UpdateRequest(id, updates)>>, 0, tk.timer)

RequestOutcomes == {"ok", "apiError", "thrown"}

\* the continuation of the handler that awaits request r
Settled(view, r, outcome) ==
    CASE r.kind = "load" /\ outcome = "ok" ->
            LoadSucceeded(view, r.reset, GetTicketsResponse(r.params))
      [] r.kind = "load" /\ outcome = "apiError" -> LoadFailed(view, ApiErrorMessage)
      [] r.kind = "load" /\ outcome = "thrown" -> LoadFailed(view, ThrownMessage)
      [] r.kind = "update" /\ outcome = "ok" ->
            UpdateSucceeded(view, r.id, UpdateTicketResponse(r.id, r.updates))
      [] r.kind = "update" /\ outcome = "apiError" -> UpdateFailed(view, ApiErrorMessage)
      [] r.kind = "update" /\ outcome = "thrown" -> UpdateFailed(view, ThrownMessage)

\* data.data of a successful ticketAPI.getStats
TicketStatsResponse == [total |-> TotalTickets]

\* the response to a loadStats request arrives; a failure is only logged
StatsSettles(outcome) ==
    /\ tk.statsInFlight > 0
    /\ tk' = [tk EXCEPT
                !.view.stats = IF outcome = "ok" THEN Some(TicketStatsResponse) ELSE @,
                !.statsInFlight = @ - 1,
                !.last = [NoEvent EXCEPT !.op = "statsSettled", !.outcome = outcome]]
    /\ UNCHANGED <<conv, prev, passed, lastInput, aiResponse, calls, fn, fnIn, fnOut, api, ws, ch>>

Without(s, i) == SubSeq(s, 1, i - 1) \o SubSeq(s, i + 1, Len(s))

\* the response to the i-th request in flight arrives
RequestSettles(i, outcome) ==
    /\ i \in 1..Len(tk.inflight)
    /\ tk' = [tk EXCEPT
                !.view = Settled(@, tk.inflight[i], outcome),
                !.inflight = Without(@, i),
                !.last = [op |-> "settled", requests |-> <<>>,
                          done |-> Some(tk.inflight[i]), outcome |-> outcome]]
    /\ UNCHANGED <<conv, prev, passed, lastInput, aiResponse, calls, fn, fnIn, fnOut, api, ws, ch>>

----------------------------------------------------------------------------
(* The real-time channel client: useWebSocket under useRealTimeConnection  *)
(*                                                                         *)
(* ws.sockets holds every socket io() has created, in creation order;      *)
(* ws.socketRef is the index of the one socketRef.current holds, 0 for     *)
(* null.  A socket's wire is what was emitted on it since its transport    *)
(* last reported a connection or the loss of one.                          *)

\* connectionStatus of useRealTimeConnection after its effect
StatusOf(isConnecting, isConnected, error) ==
    IF isConnecting THEN "connecting"
    ELSE IF isConnected THEN "connected"
    ELSE IF error # None THEN "error"
    ELSE "disconnected"

\* the latest handler and, for a transport event, the socket state it found
NoSocketEvent == [op |-> "none", from |-> ""]

IdleSocket ==
    [isConnected |-> FALSE, isConnecting |-> FALSE, error |-> None,
     socketRef |-> 0, sockets |-> <<>>, connectionStatus |-> "disconnected",
     handlers |-> {}, last |-> NoSocketEvent]

\* the socket io() returns
NewSocket(userType, userId) ==
    [state |-> "connecting", type |-> userType, userId |-> userId,
     wire |-> <<>>]

\* a socket the library has closed for good
ClosedSocket == [state |-> "closed", type |-> "", userId |-> None, wire |-> <<>>]

\* the payload of the join event
JoinEvent(socket) == [event |-> "join", type |-> socket.type, userId |-> socket.userId]

OutboundEvent(event) == [event |-> event, type |-> "", userId |-> None]

ConnectionFailed == Some(<<"Connection failed: timeout">>)
UnknownWebSocketError == Some(<<"Unknown WebSocket error">>)
FailedToConnect == Some(<<"Failed to connect">>)

\* socketRef.current?.connected
HeldConnected(hook) ==
    hook.socketRef # 0 /\ hook.sockets[hook.socketRef].state = "connected"

\* the sockets whose transport is open or still trying to open
Alive(hook) == {s \in 1..Len(hook.sockets) : hook.sockets[s].state # "closed"}

\* the render after a handler: callbacks set connectionStatus to called, then
\* the effect on isConnected, isConnecting and error recomputes it if one changed
AfterRender(old, new, called) ==
    [new EXCEPT !.connectionStatus =
        IF <<new.isConnected, new.isConnecting, new.error>>
             # <<old.isConnected, old.isConnecting, old.error>>
        THEN StatusOf(new.isConnecting, new.isConnected, new.error)
        ELSE called]

\* the connect handler without its join
OnConnectWithoutJoin(hook, s) ==
    [hook EXCEPT !.isConnected = TRUE, !.isConnecting = FALSE, !.error = None]

\* socket.on('connect', ...)
OnConnect(hook, s) ==
    [hook EXCEPT !.isConnected = TRUE, !.isConnecting = FALSE, !.error = None,
                 !.sockets[s].wire = Append(@, JoinEvent(hook.sockets[s]))]

\* socket.on('disconnect', ...)
OnDisconnect(hook) == [hook EXCEPT !.isConnected = FALSE, !.isConnecting = FALSE]

\* socket.on('connect_error', ...)
OnConnectError(hook) == [hook EXCEPT !.error = ConnectionFailed, !.isConnecting = FALSE]

\* socket.on('error', ...)
OnError(hook) == [hook EXCEPT !.error = UnknownWebSocketError]

\* emit sends whenever a socket is held
CanEmitWhenHeld(hook) == hook.socketRef # 0

\* the guard of emit
CanEmit(hook) == HeldConnected(hook)

\* emit(event, data)
Emitted(hook, event) ==
    IF CanEmit(hook)
    THEN [hook EXCEPT !.sockets[hook.socketRef].wire = Append(@, OutboundEvent(event))]
    ELSE hook

\* the body of disconnect(): a connected socket reports 'disconnect' as it closes
Disconnected(hook) ==
    IF hook.socketRef = 0 THEN hook
    ELSE [hook EXCEPT !.sockets[hook.socketRef] = ClosedSocket,
                      !.socketRef = 0,
                      !.isConnected = FALSE,
                      !.isConnecting = FALSE,
                      !.error = None]

\* the status the callbacks of disconnect() leave before the effect runs
DisconnectCalled(hook) ==
    IF HeldConnected(hook) THEN "disconnected" ELSE hook.connectionStatus

\* the early return of connect()
ConnectReturnsEarly(hook) == HeldConnected(hook)

\* the body of connect(userType, userId) when io() returns a socket
Connected(hook, userType, userId) ==
    IF ConnectReturnsEarly(hook) THEN hook
    ELSE [hook EXCEPT !.isConnecting = TRUE,
                      !.error = None,
                      !.sockets = Append(@, NewSocket(userType, userId)),
                      !.socketRef = Len(hook.sockets) + 1]

\* sockets created in one run of the channel client
MaxSockets == 2

\* events emitted on one socket after one transport connection
MaxWire == 2

SocketStep(op, from, hook) ==
    /\ ws' = [hook EXCEPT !.last = [op |-> op, from |-> from]]
    /\ UNCHANGED <<conv, prev, passed, lastInput, aiResponse, calls, fn, fnIn, fnOut, api, tk, ch>>

connect(userType, userId) ==
    /\ ConnectReturnsEarly(ws) \/ Len(ws.sockets) < MaxSockets
    /\ SocketStep("connect", "",
                  AfterRender(ws, Connected(ws, userType, userId), ws.connectionStatus))

\* io() throws inside connect()
ConnectThrows ==
    /\ ~ConnectReturnsEarly(ws)
    /\ SocketStep("connectThrows", "",
                  AfterRender(ws, [ws EXCEPT !.error = FailedToConnect,
                                             !.isConnecting = FALSE], "error"))

disconnect ==
    SocketStep("disconnect", "",
               AfterRender(ws, Disconnected(ws), DisconnectCalled(ws)))

\* the auto-connect effect re-runs: its cleanup disconnects, then it connects
AutoConnectEffect(userType, userId) ==
    /\ Len(ws.sockets) < MaxSockets
    /\ SocketStep("autoConnect", "",
                  AfterRender(ws, Connected(Disconnected(ws), userType, userId),
                              DisconnectCalled(ws)))

\* the transport of socket s reports a connection
TransportConnects(s) ==
    /\ s \in 1..Len(ws.sockets)
    /\ ws.sockets[s].state \in {"connecting", "reconnecting"}
    /\ SocketStep("transportConnects", ws.sockets[s].state,
                  AfterRender(ws,
                      OnConnect([ws EXCEPT !.sockets[s].state = "connected",
                                           !.sockets[s].wire = <<>>], s),
                      "connected"))

\* the transport of socket s drops; the library will try to reconnect
TransportDisconnects(s) ==
    /\ s \in 1..Len(ws.sockets)
    /\ ws.sockets[s].state = "connected"
    /\ SocketStep("transportDisconnects", "connected",
                  AfterRender(ws,
                      OnDisconnect([ws EXCEPT !.sockets[s].state = "reconnecting",
                                              !.sockets[s].wire = <<>>]),
                      "disconnected"))

\* a connection attempt of socket s fails; the library will try again
TransportConnectError(s) ==
    /\ s \in 1..Len(ws.sockets)
    /\ ws.sockets[s].state \in {"connecting", "reconnecting"}
    /\ SocketStep("transportConnectError", ws.sockets[s].state,
                  AfterRender(ws, OnConnectError(ws), "error"))

\* the library has used up its reconnection attempts for socket s
TransportGivesUp(s) ==
    /\ s \in 1..Len(ws.sockets)
    /\ ws.sockets[s].state \in {"connecting", "reconnecting"}
    /\ SocketStep("transportGivesUp", ws.sockets[s].state,
                  [ws EXCEPT !.sockets[s] = ClosedSocket])

\* the server sends an 'error' event on socket s
ServerError(s) ==
    /\ s \in 1..Len(ws.sockets)
    /\ ws.sockets[s].state = "connected"
    /\ SocketStep("serverError", "connected", AfterRender(ws, OnError(ws), "error"))

HelperEvents ==
    {"typing-start", "typing-stop", "ticket-created", "ticket-updated",
     "conversation-update"}

\* sendTypingStart, sendTypingStop, sendTicketCreated, sendTicketUpdated,
\* sendConversationUpdate
SendHelper(event) ==
    /\ CanEmit(ws) => Len(ws.sockets[ws.socketRef].wire) < MaxWire
    /\ SocketStep("helper", "", Emitted(ws, event))

\* the ping interval, which exists while isConnected, fires
HeartbeatPing ==
    /\ ws.isConnected
    /\ CanEmit(ws) => Len(ws.sockets[ws.socketRef].wire) < MaxWire
    /\ SocketStep("ping", "", Emitted(ws, "ping"))

\* the ping interval exists from the render that sees isConnected true to
\* the render that sees it false
HeartbeatRunning(hook) == hook.isConnected

\* events a component listens to through on()
HandlerEvents == {"ticket-created"}

\* on(event, handler): with a socket held, the handler is attached to it and
\* recorded in eventHandlersRef; ws.handlers is the set of events recorded
on(event) ==
    SocketStep("on", "",
               IF ws.socketRef # 0 THEN [ws EXCEPT !.handlers = @ \cup {event}]
               ELSE ws)

\* off(event): with a socket held, the event is deleted from eventHandlersRef
off(event) ==
    SocketStep("off", "",
               IF ws.socketRef # 0 THEN [ws EXCEPT !.handlers = @ \ {event}]
               ELSE ws)

----------------------------------------------------------------------------
(* The chat view-model: the useChat hook under ChatPage                    *)
(*                                                                         *)
(* ch holds the hook's React state after the latest render, the page's     *)
(* isCreatingTicket flag, the value stored under STORAGE_KEY, and the      *)
(* requests awaiting their response, each with the conversation its        *)
(* handler closed over.  The typing indicator is left out.                 *)

\* createdTicketId of a conversation no ticket was created for
NoTicketId == 0

\* a ConversationState as the hook holds it: the engine's fields, the id
\* given by initializeConversation, and createdTicketId
HeldConversation(id, state) ==
    [id |-> id, state |-> state, createdTicketId |-> NoTicketId]

\* chatAPI.sendMessage({ input: { message: message.trim(), ... },
\*                       conversationState: conversation }) awaiting its response
SendRequest(conversation, message) ==
    [kind |-> "send", conversation |-> conversation, message |-> Trim(message)]

\* ticketAPI.create({ ticket, conversationId }) awaiting its response
CreateRequest(conversation) ==
    [kind |-> "create", conversation |-> conversation, message |-> <<>>]

\* data.data.updatedConversation: the backend takes the step of the
\* conversation flow on the state it was sent
SendMessageResponse(request) ==
    [request.conversation EXCEPT
        !.state = processUserInput(request.message, @).updatedConversation]

NoChatEvent == [op |-> "none", via |-> "", sent |-> FALSE, done |-> None, outcome |-> ""]

IdleChat ==
    [mounted |-> FALSE, conversation |-> None, isLoading |-> FALSE, error |-> None,
     isCreatingTicket |-> FALSE, storage |-> None, inflight |-> <<>>,
     issued |-> 0, started |-> 0, tickets |-> 0, last |-> NoChatEvent]

\* the save effect after a render: a non-null conversation is written under
\* STORAGE_KEY, a null one writes nothing
Saved(hook) ==
    IF hook.conversation # None THEN [hook EXCEPT !.storage = hook.conversation]
    ELSE hook

\* the guard of sendMessage, on the state of the latest render
SendReturnsEarly(hook, message) ==
    hook.conversation = None \/ hook.isLoading \/ Trim(message) = <<>>

\* sendMessage up to its await
SendStarted(hook, message) ==
    [hook EXCEPT
        !.isLoading = TRUE, !.error = None,
        !.inflight = Append(@, SendRequest(hook.conversation[1], message)),
        !.issued = @ + 1]

\* the guard of handleCreateTicket and of createTicket
CreateReturnsEarly(hook) ==
    hook.conversation = None \/ ~hook.conversation[1].state.isComplete

\* the create-ticket button is rendered for a complete conversation and is
\* disabled while isCreatingTicket or once createdTicketId is set
ButtonEnabled(hook) ==
    /\ ~CreateReturnsEarly(hook)
    /\ ~hook.isCreatingTicket
    /\ hook.conversation[1].createdTicketId = NoTicketId

\* the ctrl+enter shortcut is disabled only while no complete conversation is held
ShortcutEnabled(hook) == ~CreateReturnsEarly(hook)

\* handleCreateTicket and createTicket up to the await
CreateStarted(hook) ==
    [hook EXCEPT
        !.isCreatingTicket = TRUE,
        !.isLoading = TRUE, !.error = None,
        !.inflight = Append(@, CreateRequest(hook.conversation[1])),
        !.issued = @ + 1]

\* sendMessage after a successful await: setConversation(updatedConversation)
SendSucceeded(hook, request) ==
    [hook EXCEPT !.conversation = Some(SendMessageResponse(request)),
                 !.isLoading = FALSE]

\* sendMessage or createTicket after a failed await
ChatRequestFailed(hook, request, message) ==
    [hook EXCEPT !.error = Some(message), !.isLoading = FALSE,
                 !.isCreatingTicket = IF request.kind = "create" THEN FALSE ELSE @]

\* createTicket after a successful await: the conversation it closed over
\* with the id of the ticket the backend created
CreateSucceeded(hook, request) ==
    [hook EXCEPT
        !.conversation =
            Some([request.conversation EXCEPT !.createdTicketId = hook.tickets + 1]),
        !.tickets = @ + 1,
        !.isLoading = FALSE,
        !.isCreatingTicket = FALSE]

\* conversations started and requests issued in one run of the chat page
MaxConversations == 1

MaxChatRequests == 3

ChatStep(op, via, sent, done, outcome, hook) ==
    /\ ch.mounted
    /\ hook.issued <= MaxChatRequests
    /\ hook.started <= MaxConversations
    /\ ch' = [Saved(hook) EXCEPT
                !.last = [op |-> op, via |-> via, sent |-> sent, done |-> done,
                          outcome |-> outcome]]
    /\ UNCHANGED <<conv, prev, passed, lastInput, aiResponse, calls, fn, fnIn, fnOut, api, tk, ws>>

\* first render: the conversation saved under STORAGE_KEY, if any, is restored
ChatMount ==
    /\ ~ch.mounted
    /\ ch' = [ch EXCEPT !.mounted = TRUE, !.conversation = ch.storage,
                        !.last = [NoChatEvent EXCEPT !.op = "mount"]]
    /\ UNCHANGED <<conv, prev, passed, lastInput, aiResponse, calls, fn, fnIn, fnOut, api, tk, ws>>

startConversation ==
    ChatStep("startConversation", "", FALSE, None, "",
             [ch EXCEPT
                !.conversation = Some(HeldConversation(ch.started + 1, initializeConversation)),
                !.error = None,
                !.started = @ + 1])

sendMessage(message) ==
    IF SendReturnsEarly(ch, message)
    THEN ChatStep("sendMessage", "", FALSE, None, "", ch)
    ELSE ChatStep("sendMessage", "", TRUE, None, "", SendStarted(ch, message))

resetConversation ==
    ChatStep("resetConversation", "", FALSE, None, "",
             [ch EXCEPT !.conversation = None, !.error = None, !.storage = None])

\* the button is clicked or ctrl+enter is pressed
handleCreateTicket(via) ==
    /\ IF via = "button" THEN ButtonEnabled(ch) ELSE ShortcutEnabled(ch)
    /\ ChatStep("createTicket", via, TRUE, None, "", CreateStarted(ch))

\* the response to the i-th chat request in flight arrives
ChatRequestSettles(i, outcome) ==
    /\ i \in 1..Len(ch.inflight)
    /\ LET r == ch.inflight[i]
           rest == [ch EXCEPT !.inflight = Without(@, i)]
       IN  ChatStep("settled", "", FALSE, Some(r), outcome,
                    CASE outcome # "ok" ->
                            ChatRequestFailed(rest, r,
                                IF outcome = "apiError" THEN ApiErrorMessage
                                ELSE ThrownMessage)
                      [] outcome = "ok" /\ r.kind = "send" -> SendSucceeded(rest, r)
                      [] outcome = "ok" /\ r.kind = "create" -> CreateSucceeded(rest, r))

----------------------------------------------------------------------------
(* Idle values of the variables a specification does not use               *)

NoResponse ==
    [type |-> "none", prompt |-> "", nextStep |-> GREETING,
     suggestions |-> <<>>, categoryOptions |-> <<>>, requiresInput |-> TRUE]

NoApi == [IdleApi EXCEPT !.pc = "unused"]

TicketsUnused == [IdleTickets EXCEPT !.last.op = "unused"]

SocketUnused == [IdleSocket EXCEPT !.last.op = "unused"]

ChatUnused == [IdleChat EXCEPT !.last.op = "unused"]

EngineIdle == fn = "none" /\ fnIn = <<>> /\ fnOut = <<>>

ConversationIdle ==
    /\ conv = initializeConversation
    /\ prev = initializeConversation
    /\ passed = initializeConversation
    /\ lastInput = <<>>
    /\ aiResponse = NoResponse
    /\ calls = 0

----------------------------------------------------------------------------
(* Specification Spec: a conversation driven by processUserInput           *)

\* number of processUserInput calls explored
MaxCalls == 6

\* raw user inputs: blank, a two-character name with surrounding blanks, a
\* short description with a doubled space, an affirmative, a category name
Inputs ==
    { <<" ">>, <<" ","A","l"," ">>, <<"m","y"," "," ","i","n","v","o","i","c","e">>, <<"y","e","s">>, <<"b","i","l","l","i","n","g">> }

Init ==
    /\ ConversationIdle
    /\ EngineIdle
    /\ api = NoApi
    /\ tk = TicketsUnused
    /\ ws = SocketUnused
    /\ ch = ChatUnused

\* one processUserInput call on the held conversation, the caller keeping
\* the returned state
Call(userInput, bound) ==
    /\ calls < bound
    /\ LET result == processUserInput(userInput, conv)
       IN  /\ conv' = result.updatedConversation
           /\ aiResponse' = result.aiResponse
    /\ prev' = conv
    /\ passed' = ArgumentAfterCall(userInput, conv)
    /\ lastInput' = userInput
    /\ calls' = calls + 1
    /\ UNCHANGED <<fn, fnIn, fnOut, api, tk, ws, ch>>

ProcessInput(userInput) == Call(userInput, MaxCalls)

Next == \E userInput \in Inputs : ProcessInput(userInput)

Spec == Init /\ [][Next]_vars

----------------------------------------------------------------------------
(* Specification SpecApi: one request() call against every outcome         *)

InitApi ==
    /\ ConversationIdle
    /\ EngineIdle
    /\ api = IdleApi
    /\ tk = TicketsUnused
    /\ ws = SocketUnused
    /\ ch = ChatUnused

NextApi ==
    \/ \E retries \in 0..MaxRetries : Request(retries)
    \/ \E outcome \in Outcomes : FetchSettles(outcome)
    \/ SleepElapses

SpecApi == InitApi /\ [][NextApi]_vars

----------------------------------------------------------------------------
(* Pure functions applied to bounded input sets                            *)

\* the character c repeated n times
Repeat(c, n) == [i \in 1..n |-> c]

\* the texts of at most n words of a vocabulary, joined by single spaces
RECURSIVE Phrases(_, _)
Phrases(words, n) ==
    IF n = 0 THEN {<<>>}
    ELSE LET shorter == Phrases(words, n - 1)
         IN  shorter \cup words
                 \cup {p \o <<" ">> \o w : p \in shorter \ {<<>>}, w \in words}

\* words per text given to detectCategory
MaxWords == 2

Vocabulary ==
    { <<"b","u","g">>, <<"e","r","r","o","r">>, <<"r","e","f","u","n","d">>, <<"L","o","g","i","n">>, <<"a","c","c","o","u","n","t">>, <<"a","d","d">>,
      <<"h","e","l","l","o">>, <<"c","r","e","d","i","t">>, <<"c","a","r","d">> }

CategoryInputs == Phrases(Vocabulary, MaxWords)

InitCategory ==
    /\ ConversationIdle
    /\ api = NoApi
    /\ tk = TicketsUnused
    /\ ws = SocketUnused
    /\ ch = ChatUnused
    /\ fn = "detectCategory"
    /\ fnIn \in CategoryInputs
    /\ fnOut = <<>>

DetectCategory ==
    /\ fn = "detectCategory"
    /\ fnOut = <<>>
    /\ fnOut' = <<detectCategory(fnIn)>>
    /\ UNCHANGED <<conv, prev, passed, lastInput, aiResponse, calls, fn, fnIn, api, tk, ws, ch>>

NextCategory == DetectCategory

SpecCategory == InitCategory /\ [][NextCategory]_vars

\* longest first segment of a description given to generateIssueTitle
MaxHeadLength == 62

\* length of the long second segment
LongTailLength == 61

TitleInputs ==
    { lead \o Repeat("a", n) \o mid \o Repeat("b", m) \o trail :
        lead \in {<<>>, <<" ">>},
        n \in 0..MaxHeadLength,
        mid \in {<<>>, <<" ">>, <<" ", "\t">>, <<".">>, <<" ", ".">>, <<".", " ">>},
        m \in {0, 1, LongTailLength},
        trail \in {<<>>, <<" ">>} }

InitTitle ==
    /\ ConversationIdle
    /\ api = NoApi
    /\ tk = TicketsUnused
    /\ ws = SocketUnused
    /\ ch = ChatUnused
    /\ fn = "generateIssueTitle"
    /\ fnIn \in TitleInputs
    /\ fnOut = <<>>

\* title := generateIssueTitle(description)
DeriveTitle ==
    /\ fn = "generateIssueTitle"
    /\ fnOut = <<>>
    /\ fnOut' = <<generateIssueTitle(fnIn)>>
    /\ UNCHANGED <<conv, prev, passed, lastInput, aiResponse, calls, fn, fnIn, api, tk, ws, ch>>

\* generateIssueTitle applied to the title it produced
DeriveTitleAgain ==
    /\ fn = "generateIssueTitle"
    /\ Len(fnOut) = 1
    /\ fnOut' = Append(fnOut, generateIssueTitle(fnOut[1]))
    /\ UNCHANGED <<conv, prev, passed, lastInput, aiResponse, calls, fn, fnIn, api, tk, ws, ch>>

NextTitle == DeriveTitle \/ DeriveTitleAgain

SpecTitle == InitTitle /\ [][NextTitle]_vars

\* longest run of non-blank characters given to validateInput
MaxInputLength == 52

ValidateInputs ==
    { [text |-> lead \o Repeat("x", n) \o trail, step |-> step] :
        lead \in {<<>>, <<" ">>},
        n \in 0..MaxInputLength,
        trail \in {<<>>, <<"\t">>, <<" ", "x">>},
        step \in ConversationStep }

InitValidate ==
    /\ ConversationIdle
    /\ api = NoApi
    /\ tk = TicketsUnused
    /\ ws = SocketUnused
    /\ ch = ChatUnused
    /\ fn = "validateInput"
    /\ fnIn \in ValidateInputs
    /\ fnOut = <<>>

ValidateInput ==
    /\ fn = "validateInput"
    /\ fnOut = <<>>
    /\ fnOut' = <<validateInput(fnIn.text, fnIn.step)>>
    /\ UNCHANGED <<conv, prev, passed, lastInput, aiResponse, calls, fn, fnIn, api, tk, ws, ch>>

NextValidate == ValidateInput

SpecValidate == InitValidate /\ [][NextValidate]_vars

----------------------------------------------------------------------------
(* Specification SpecLoop: a conversation long enough to be rejected at    *)
(* the final confirmation and confirmed again                              *)

\* number of processUserInput calls explored
MaxLoopCalls == 9

\* a description longer than TitleMaxLength that starts with a full stop
LongDotted == <<".">> \o Repeat("b", TitleMaxLength + 1)

\* raw user inputs: the long description, an affirmative, and a text naming
\* two categories, the one declared later first
LoopInputs ==
    { LongDotted, <<"y","e","s">>,
      <<"a","c","c","o","u","n","t"," ","b","i","l","l","i","n","g">> }

ProcessLoopInput(userInput) == Call(userInput, MaxLoopCalls)

NextLoop == \E userInput \in LoopInputs : ProcessLoopInput(userInput)

SpecLoop == Init /\ [][NextLoop]_vars

----------------------------------------------------------------------------
(* Specification SpecChat: the chat page over a fresh or a restored        *)
(* conversation                                                            *)

\* the completed conversation a previous visit left under STORAGE_KEY
CompletedState ==
    LET Step(input, state) == processUserInput(input, state).updatedConversation
        yes == <<"y","e","s">>
        issue == <<"m","y"," ","i","n","v","o","i","c","e">>
    IN  Step(yes, Step(yes, Step(issue, Step(issue, Step(yes, initializeConversation)))))

StoredChoices == { None, Some(HeldConversation(0, CompletedState)) }

\* typed messages: an affirmative with surrounding blanks, and a blank one
ChatMessages == { <<" ","y","e","s"," ">>, <<" ">> }

InitChat ==
    /\ ConversationIdle
    /\ EngineIdle
    /\ api = NoApi
    /\ tk = TicketsUnused
    /\ ws = SocketUnused
    /\ \E stored \in StoredChoices : ch = [IdleChat EXCEPT !.storage = stored]

NextChat ==
    \/ ChatMount
    \/ startConversation
    \/ \E message \in ChatMessages : sendMessage(message)
    \/ resetConversation
    \/ \E via \in {"button", "shortcut"} : handleCreateTicket(via)
    \/ \E i \in 1..MaxChatRequests, outcome \in RequestOutcomes : ChatRequestSettles(i, outcome)

SpecChat == InitChat /\ [][NextChat]_vars

----------------------------------------------------------------------------
(* Specification SpecTickets: the dashboard's ticket view-model            *)

\* Partial<TicketFilter> values given to setFilters
FilterChoices == { [status |-> Some(<<OPEN>>)] }

\* search box contents: a padded query and the emptied box
SearchChoices == { <<" ", "a", "l">>, <<>> }

SortChoices == { <<"priority", "asc">> }

\* a ticket of the first page and one of the second page
UpdateIds == { 2, DEFAULT_PAGE_SIZE + 1 }

UpdateChoices == { [status |-> RESOLVED] }

InitTickets ==
    /\ ConversationIdle
    /\ EngineIdle
    /\ api = NoApi
    /\ tk = IdleTickets
    /\ ws = SocketUnused
    /\ ch = ChatUnused

NextTickets ==
    \/ Mount
    \/ \E newFilters \in FilterChoices : setFilters(newFilters)
    \/ \E query \in SearchChoices : setSearchQuery(query)
    \/ DebounceElapses
    \/ \E sorting \in SortChoices : setSorting(sorting[1], sorting[2])
    \/ clearFilters
    \/ refreshTickets
    \/ loadMore
    \/ \E id \in UpdateIds, updates \in UpdateChoices : updateTicket(id, updates)
    \/ \E i \in 1..MaxRequests, outcome \in RequestOutcomes : RequestSettles(i, outcome)
    \/ \E outcome \in {"ok", "apiError"} : StatsSettles(outcome)

SpecTickets == InitTickets /\ [][NextTickets]_vars

----------------------------------------------------------------------------
(* Specification SpecFilter: filteredTickets over held tickets             *)

LOW == "low"
HIGH == "high"

HeldTicket1 ==
    [id |-> <<"t", "-", "1">>, title |-> <<"A", "l", "p", "h", "a", " ", "o", "u", "t", "a", "g", "e">>, description |-> <<"l", "o", "g", "i", "n", " ", "f", "a", "i", "l", "s">>,
     userName |-> <<"B", "o">>, status |-> OPEN, category |-> BILLING, priority |-> HIGH,
     assignedTo |-> Some(<<"a", "n", "n">>)]

HeldTicket2 ==
    [id |-> <<"t", "-", "2">>, title |-> <<"b", "e", "t", "a">>, description |-> <<"i", "n", "v", "o", "i", "c", "e", " ", "t", "o", "t", "a", "l">>,
     userName |-> <<"A", "l">>, status |-> CLOSED, category |-> TECHNICAL, priority |-> LOW,
     assignedTo |-> None]

HeldTicket3 ==
    [id |-> <<"t", "-", "3">>, title |-> <<"g", "a", "m", "m", "a">>, description |-> <<"r", "e", "f", "u", "n", "d">>,
     userName |-> <<"C", "y">>, status |-> OPEN, category |-> BILLING, priority |-> LOW,
     assignedTo |-> Some(<<"b", "o", "b">>)]

HeldChoices ==
    { <<HeldTicket1, HeldTicket2, HeldTicket3>>, <<HeldTicket3, HeldTicket2>> }

FilterValues ==
    [status : {None, Some(<<>>), Some(<<OPEN>>), Some(<<OPEN, CLOSED>>)},
     category : {None, Some(<<BILLING>>)},
     priority : {None, Some(<<HIGH>>)},
     assignedTo : {None, Some(<<>>), Some(<<"a", "n", "n">>)},
     dateFrom : {None, Some(1)},
     dateTo : {None, Some(2)}]

SearchValues == { <<>>, <<" ">>, <<"a", "l">>, <<"A", "L">>, <<"a", "l", " ">>, <<"t", "-", "2">> }

InitFilter ==
    /\ ConversationIdle
    /\ api = NoApi
    /\ tk = TicketsUnused
    /\ ws = SocketUnused
    /\ ch = ChatUnused
    /\ fn = "filteredTickets"
    /\ fnIn \in [tickets : HeldChoices, filters : FilterValues, searchQuery : SearchValues]
    /\ fnOut = <<>>

FilterTickets ==
    /\ fn = "filteredTickets"
    /\ fnOut = <<>>
    /\ fnOut' = <<filteredTickets(fnIn.tickets, fnIn.filters, fnIn.searchQuery)>>
    /\ UNCHANGED <<conv, prev, passed, lastInput, aiResponse, calls, fn, fnIn, api, tk, ws, ch>>

NextFilter == FilterTickets

SpecFilter == InitFilter /\ [][NextFilter]_vars

----------------------------------------------------------------------------
(* Specification SpecSocket: the channel client against its transport      *)

\* the role tag and optional user id given to connect
JoinChoices == { <<"support", None>>, <<"user", Some("u1")>> }

InitSocket ==
    /\ ConversationIdle
    /\ EngineIdle
    /\ api = NoApi
    /\ tk = TicketsUnused
    /\ ws = IdleSocket
    /\ ch = ChatUnused

NextSocket ==
    \/ \E who \in JoinChoices : connect(who[1], who[2])
    \/ ConnectThrows
    \/ disconnect
    \/ \E who \in JoinChoices : AutoConnectEffect(who[1], who[2])
    \/ \E s \in 1..MaxSockets : TransportConnects(s)
    \/ \E s \in 1..MaxSockets : TransportDisconnects(s)
    \/ \E s \in 1..MaxSockets : TransportConnectError(s)
    \/ \E s \in 1..MaxSockets : TransportGivesUp(s)
    \/ \E s \in 1..MaxSockets : ServerError(s)
    \/ \E event \in HelperEvents : SendHelper(event)
    \/ HeartbeatPing
    \/ \E event \in HandlerEvents : on(event)
    \/ \E event \in HandlerEvents : off(event)

SpecSocket == InitSocket /\ [][NextSocket]_vars

----------------------------------------------------------------------------
(* Properties of the conversation engine (specification Spec)              *)

\* C1: in every state reached from initializeConversation by
\* processUserInput calls, isComplete is true exactly when currentStep is
\* TICKET_CREATED.
C1_CompleteIffTicketCreated ==
    conv.isComplete <=> (conv.currentStep = TICKET_CREATED)

\* the terminal step has been reached and a further input was processed there
C1_Witness ==
    /\ calls > 0
    /\ prev.currentStep = TICKET_CREATED
    /\ conv.currentStep = TICKET_CREATED
    /\ conv.isComplete

\* the steps whose inputs are checked against a length predicate
LengthCheckedSteps == {GREETING, COLLECT_NAME, COLLECT_ISSUE, CLARIFY_DETAILS}

\* the trimmed input fails the length predicate of the step
FailsLengthPredicate(userInput, step) ==
    LET n == Len(Trim(userInput))
    IN  CASE step \in {GREETING, COLLECT_NAME} -> n < NameMinLength \/ n > NameMaxLength
          [] step = COLLECT_ISSUE -> n < IssueMinLength
          [] step = CLARIFY_DETAILS -> n < DetailMinLength
          [] OTHER -> FALSE

RepromptOf(step) ==
    CASE step \in {GREETING, COLLECT_NAME} -> "NAME_REPROMPT"
      [] step = COLLECT_ISSUE -> "ISSUE_REPROMPT"
      [] step = CLARIFY_DETAILS -> "DETAILS_REPROMPT"
      [] OTHER -> ""

\* the last call was made at a length-checked step with a failing input
RejectedByLength ==
    /\ calls > 0
    /\ prev.currentStep \in LengthCheckedSteps
    /\ FailsLengthPredicate(lastInput, prev.currentStep)

\* C2: at a step with a length predicate, an input failing the predicate
\* leaves currentStep and the collected data unchanged and appends exactly
\* the USER message followed by one reprompt ASSISTANT message.
C2_InvalidInputReprompts ==
    RejectedByLength =>
        /\ conv.currentStep = prev.currentStep
        /\ conv.collectedData = prev.collectedData
        /\ conv.messages =
              prev.messages \o
                 <<UserMessage(Trim(lastInput)),
                   AssistantMessage(RepromptOf(prev.currentStep), <<>>)>>
        /\ aiResponse.nextStep = prev.currentStep

\* a too-short clarification detail was rejected
C2_Witness ==
    /\ RejectedByLength
    /\ prev.currentStep = CLARIFY_DETAILS
    /\ Len(Trim(lastInput)) > 0

\* the last call was the rejection of the final confirmation
FinalRejection ==
    /\ calls > 0
    /\ prev.currentStep = FINAL_CONFIRMATION
    /\ conv.currentStep = COLLECT_NAME
    /\ ~isConfirmed(Trim(lastInput))

\* C3: the position of currentStep in the ordered step sequence, and with it
\* the progress percentage, never decreases over a processUserInput call,
\* except on the rejection FINAL_CONFIRMATION -> COLLECT_NAME; progress is 0
\* at GREETING and 100 at TICKET_CREATED.
C3_StepNeverRegresses ==
    /\ calls > 0 =>
          \/ /\ IndexOfStep(conv.currentStep) >= IndexOfStep(prev.currentStep)
             /\ getProgressPercentage(conv.currentStep)
                   >= getProgressPercentage(prev.currentStep)
          \/ FinalRejection
    /\ conv.currentStep = GREETING => getProgressPercentage(conv.currentStep) = 0
    /\ conv.currentStep = TICKET_CREATED =>
          getProgressPercentage(conv.currentStep) = 100

\* the rejection loop was taken and the conversation advanced again after it
C3_Witness ==
    /\ calls > 0
    /\ prev.currentStep = COLLECT_NAME
    /\ conv.currentStep = COLLECT_ISSUE
    /\ prev.collectedData.confirmedCategory # Undefined

\* the score detectCategory gives a category on a text
ScoreOf(category, text) ==
    LET entries == categoryScores(ToLowerCase(text))
    IN  entries[CHOOSE i \in 1..Len(entries) : entries[i][1] = category][2]

ScoredCategories == {TECHNICAL, BILLING, ACCOUNT, FEATURE_REQUEST, BUG_REPORT}

BillingScoresHighest(text) ==
    \A category \in ScoredCategories \ {BILLING} :
        ScoreOf(BILLING, text) > ScoreOf(category, text)

\* the k-th call of the scenario was just made on the scenario's path
ScenarioCall(k, step) == calls = k /\ prev.currentStep = step

\* the parts of the scenario that do not concern the title
ScenarioSteps ==
    /\ (ScenarioCall(1, GREETING) /\ validateInput(lastInput, COLLECT_NAME))
          => conv.currentStep = COLLECT_ISSUE
    /\ (ScenarioCall(2, COLLECT_ISSUE) /\ validateInput(lastInput, COLLECT_ISSUE))
          => conv.currentStep = CLARIFY_DETAILS
    /\ (/\ ScenarioCall(3, CLARIFY_DETAILS)
        /\ validateInput(lastInput, CLARIFY_DETAILS)
        /\ BillingScoresHighest(prev.collectedData.issueDescription[1]
                                   \o <<" ">> \o Trim(lastInput)))
          => /\ conv.currentStep = SUGGEST_CATEGORY
             /\ conv.collectedData.suggestedCategory = BILLING
             /\ aiResponse.prompt = "SUGGEST_CATEGORY"
             /\ conv.messages[Len(conv.messages)].args
                   = <<getCategoryDisplayName(BILLING)>>
    /\ (/\ ScenarioCall(4, SUGGEST_CATEGORY)
        /\ prev.collectedData.suggestedCategory = BILLING
        /\ Trim(lastInput) = <<"y","e","s">>)
          => /\ conv.currentStep = FINAL_CONFIRMATION
             /\ conv.collectedData.confirmedCategory = BILLING
    /\ (/\ ScenarioCall(5, FINAL_CONFIRMATION)
        /\ prev.collectedData.confirmedCategory = BILLING
        /\ Trim(lastInput) = <<"y","e","s">>)
          => /\ conv.currentStep = TICKET_CREATED
             /\ conv.isComplete

\* the second call of the scenario stored a description of at most 60 characters
ShortDescriptionStored ==
    /\ ScenarioCall(2, COLLECT_ISSUE)
    /\ validateInput(lastInput, COLLECT_ISSUE)
    /\ Len(Trim(lastInput)) <= TitleMaxLength

\* C4 as stated: the scenario name, description (at most 60 characters),
\* detail scoring BILLING highest, "yes", "yes" passes through COLLECT_ISSUE,
\* CLARIFY_DETAILS with issueTitle equal to the description, SUGGEST_CATEGORY
\* with BILLING, FINAL_CONFIRMATION, and ends at TICKET_CREATED complete.
C4_ScenarioTitleIsDescription ==
    /\ ScenarioSteps
    /\ ShortDescriptionStored =>
          conv.collectedData.issueTitle = conv.collectedData.issueDescription

\* C4 amended: the same scenario, with issueTitle equal to the description
\* after every run of whitespace in it is replaced by one space.
C4_ScenarioTitleIsCollapsedDescription ==
    /\ ScenarioSteps
    /\ ShortDescriptionStored =>
          /\ conv.collectedData.issueDescription = Some(Trim(lastInput))
          /\ conv.collectedData.issueTitle
                = Some(CollapseWhitespace(Trim(lastInput)))

\* the scenario ran to its end
C4_Witness ==
    /\ ScenarioCall(5, FINAL_CONFIRMATION)
    /\ prev.collectedData.confirmedCategory = BILLING
    /\ Trim(lastInput) = <<"y","e","s">>
    /\ conv.currentStep = TICKET_CREATED
    /\ Len(conv.collectedData.issueDescription[1]) <= TitleMaxLength
    /\ conv.collectedData.issueTitle # conv.collectedData.issueDescription

----------------------------------------------------------------------------
(* Properties of detectCategory (specification SpecCategory)               *)

\* the highest of the five keyword counts of a text
HighestScore(text) ==
    LET scores == {ScoreOf(category, text) : category \in ScoredCategories}
    IN  CHOOSE s \in scores : \A other \in scores : s >= other

\* the positions, in declaration order, of the categories with the highest count
TopPositions(text) ==
    {i \in 1..Len(TicketCategory) :
        /\ TicketCategory[i] \in ScoredCategories
        /\ ScoreOf(TicketCategory[i], text) = HighestScore(text)}

FirstDeclaredTop(text) ==
    TicketCategory[CHOOSE i \in TopPositions(text) : \A j \in TopPositions(text) : i <= j]

LastDeclaredTop(text) ==
    TicketCategory[CHOOSE i \in TopPositions(text) : \A j \in TopPositions(text) : i >= j]

CategoryDetected == fn = "detectCategory" /\ Len(fnOut) = 1

\* C5 as stated: the result is the category with the highest keyword count,
\* the first-declared one when several tie for a non-zero highest count, and
\* GENERAL when every count is zero.
C5_TieGoesToFirstDeclared ==
    CategoryDetected =>
        fnOut[1] = IF HighestScore(fnIn) = 0 THEN GENERAL ELSE FirstDeclaredTop(fnIn)

\* C5 amended: the result is the category with the highest keyword count,
\* the last-declared one when several tie for a non-zero highest count, and
\* GENERAL when every count is zero.
C5_TieGoesToLastDeclared ==
    CategoryDetected =>
        fnOut[1] = IF HighestScore(fnIn) = 0 THEN GENERAL ELSE LastDeclaredTop(fnIn)

\* a text on which two categories tie for a non-zero highest count
C5_Witness ==
    /\ CategoryDetected
    /\ HighestScore(fnIn) > 0
    /\ Cardinality(TopPositions(fnIn)) >= 2

----------------------------------------------------------------------------
(* Properties of generateIssueTitle (specification SpecTitle)              *)

\* C6: deriving a title from a derived title returns the same title.
C6_TitleIdempotent ==
    (fn = "generateIssueTitle" /\ Len(fnOut) = 2) => fnOut[2] = fnOut[1]

----------------------------------------------------------------------------
(* Properties of validateInput (specification SpecValidate)                *)

InputValidated == fn = "validateInput" /\ Len(fnOut) = 1

\* the length conditions of the three length-checked steps
LengthConditionHolds(text, step) ==
    LET n == Len(Trim(text))
    IN  CASE step = COLLECT_NAME -> n >= NameMinLength /\ n <= NameMaxLength
          [] step = COLLECT_ISSUE -> n >= IssueMinLength
          [] step = CLARIFY_DETAILS -> n >= DetailMinLength
          [] OTHER -> TRUE

\* C7 as stated: true exactly when the trimmed length is in [2,50] (name),
\* at least 10 (issue), at least 5 (clarification), and, for the category
\* confirmation and final confirmation steps, when the input is non-empty.
C7_ConfirmationStepsNeedNonEmpty ==
    InputValidated =>
        fnOut[1] =
           IF fnIn.step \in {CONFIRM_CATEGORY, FINAL_CONFIRMATION}
           THEN Len(fnIn.text) > 0
           ELSE LengthConditionHolds(fnIn.text, fnIn.step)

\* C7 amended: true exactly when the trimmed length is in [2,50] (name),
\* at least 10 (issue), at least 5 (clarification); for every other step,
\* the category confirmation and final confirmation steps included, true
\* for every input, the empty one included.
C7_ValidateInputByStep ==
    InputValidated => fnOut[1] = LengthConditionHolds(fnIn.text, fnIn.step)

\* a name of exactly the minimum length, padded with blanks, was accepted
C7_Witness ==
    /\ InputValidated
    /\ fnIn.step = COLLECT_NAME
    /\ Len(Trim(fnIn.text)) = NameMinLength
    /\ Len(fnIn.text) > NameMinLength
    /\ fnOut[1]

----------------------------------------------------------------------------
(* Properties of ApiClient.request (specification SpecApi)                 *)

Is4xx(outcome) ==
    outcome.kind = "http" /\ outcome.status >= 400 /\ outcome.status < 500

Is5xx(outcome) == outcome.kind = "http" /\ outcome.status >= 500

AllAttemptsRetryable ==
    \A k \in 1..Len(api.log) : api.log[k].kind = "reject" \/ Is5xx(api.log[k])

\* the error request() throws for a failed last attempt
SurfacedFor(outcome) ==
    IF outcome.kind = "http"
    THEN /\ api.thrown.name = "ApiClientError"
         /\ api.thrown.status = outcome.status
    ELSE /\ api.thrown.name = "ApiClientError"
         /\ api.thrown.type = NETWORK_ERROR
         /\ api.thrown.originalError = outcome.name

\* C9: with retry count N the client never makes more than N+1 attempts;
\* when every attempt fails with a network failure or a 5xx response it
\* makes exactly N+1 attempts and throws the failure of the last one; a
\* successful attempt ends the loop.
C9_BoundedRetries ==
    /\ api.fetches <= api.retries + 1
    /\ Len(api.log) <= api.fetches
    /\ (api.pc = "thrown" /\ AllAttemptsRetryable) =>
          /\ api.fetches = api.retries + 1
          /\ Len(api.log) = api.retries + 1
          /\ SurfacedFor(api.log[Len(api.log)])
    /\ \A k \in 1..Len(api.log) :
          api.log[k].kind = "ok" => (k = Len(api.log) /\ api.pc = "returned")

\* the retries were spent on failures of both kinds
C9_Witness ==
    /\ api.pc = "thrown"
    /\ AllAttemptsRetryable
    /\ api.retries = MaxRetries
    /\ api.fetches = MaxRetries + 1
    /\ api.log[1].kind = "reject"
    /\ Is5xx(api.log[Len(api.log)])

\* the classification of a status, as the taxonomy states it
ClassOfStatus(status) ==
    IF status = 400 THEN VALIDATION_ERROR
    ELSE IF status = 401 THEN UNAUTHORIZED
    ELSE IF status = 403 THEN FORBIDDEN
    ELSE IF status = 404 THEN NOT_FOUND
    ELSE IF status = 408 THEN TIMEOUT
    ELSE INTERNAL_ERROR

\* the class of a failed attempt: by status, or network when no response came
ClassOfFailure(outcome) ==
    IF outcome.kind = "http" THEN ClassOfStatus(outcome.status) ELSE NETWORK_ERROR

RetryableClasses == {TIMEOUT, NETWORK_ERROR, INTERNAL_ERROR}

\* attempt k failed, and was followed by a sleep or a further attempt
WasRetried(k) == api.fetches > k \/ (k = Len(api.log) /\ api.pc = "sleeping")

\* attempt k failed while retries were left
FailedWithRetriesLeft(k) ==
    /\ k \in 1..Len(api.log)
    /\ api.log[k].kind # "ok"
    /\ k <= api.retries

\* an error thrown for an HTTP response carries the class of its status
ThrownClassified ==
    (api.pc = "thrown" /\ api.log[Len(api.log)].kind = "http") =>
        api.thrown.type = ClassOfStatus(api.log[Len(api.log)].status)

----------------------------------------------------------------------------
(* Properties of the ticket view-model (specification SpecTickets)         *)

\* number of getAll requests among the given requests
LoadsInFlight(requests) == Len(SelectSeq(requests, LAMBDA r : r.kind = "load"))

\* the step just taken delivered a failure to a load or to an updateTicket
FailureDelivered == tk'.last.op = "settled" /\ tk'.last.outcome # "ok"

\* the step just taken delivered the server's ticket to an updateTicket
UpdateDelivered ==
    /\ tk'.last.op = "settled"
    /\ tk'.last.outcome = "ok"
    /\ tk'.last.done[1].kind = "update"

\* C11: a load, loadMore or updateTicket call leaves the held tickets as they
\* are when it is made and when it fails, and its failure leaves a non-null
\* error string
C11_FailureKeepsTicketsAndSetsError ==
    [][ /\ tk'.last.requests # <<>> => tk'.view.tickets = tk.view.tickets
        /\ FailureDelivered =>
              /\ tk'.view.tickets = tk.view.tickets
              /\ tk'.view.error # None ]_vars

\* an updateTicket answered with an error while tickets are held
C11_Witness ==
    /\ tk.last.op = "settled"
    /\ tk.last.outcome = "apiError"
    /\ tk.last.done[1].kind = "update"
    /\ tk.view.tickets # <<>>
    /\ tk.view.error = Some(ApiErrorMessage)

\* C12: updateTicket(id, updates) changes no held ticket when it is called;
\* when the server's ticket arrives, every held ticket with identifier id is
\* the server's ticket and every other position, the order and the length
\* are as before
C12_UpdateReplacesOnlyTheTicket ==
    [][ /\ tk'.last.op = "updateTicket" => tk'.view.tickets = tk.view.tickets
        /\ UpdateDelivered =>
              LET id == tk'.last.done[1].id
                  server == UpdateTicketResponse(id, tk'.last.done[1].updates)
                  old == tk.view.tickets
                  new == tk'.view.tickets
              IN  /\ Len(new) = Len(old)
                  /\ \A i \in 1..Len(old) :
                        new[i] = IF old[i].id = id THEN server ELSE old[i] ]_vars

\* the server's ticket replaced a held ticket that is not the first one
C12_Witness ==
    /\ tk.last.op = "settled"
    /\ tk.last.outcome = "ok"
    /\ tk.last.done[1].kind = "update"
    /\ \E i \in 2..Len(tk.view.tickets) :
          /\ tk.view.tickets[i].id = tk.last.done[1].id
          /\ tk.view.tickets[i].status = RESOLVED
          /\ tk.view.tickets[1].status = OPEN

\* C13: loadMore sends no request and changes no state when pagination
\* reports no next page or a load request is still awaiting its response
C13_LoadMoreIdleWhileLoadAwaited ==
    [][ /\ tk'.last.op = "loadMore"
        /\ ~tk.view.pagination.hasNext \/ LoadsInFlight(tk.inflight) > 0
        => /\ tk'.view = tk.view
           /\ tk'.inflight = tk.inflight ]_vars

\* the step just taken delivered a page to a load sent by loadMore
LoadMoreDelivered ==
    /\ tk'.last.op = "settled"
    /\ tk'.last.outcome = "ok"
    /\ tk'.last.done[1].via = "loadMore"

\* C14: with page p held, a next page and no load in flight, loadMore requests
\* page p+1 under the current filters, search and sort; its success appends
\* the delivered page and takes the pagination of the response
C14_LoadMoreFetchesNextPage ==
    [][ /\ /\ tk'.last.op = "loadMore"
           /\ tk.view.pagination.hasNext
           /\ LoadsInFlight(tk.inflight) = 0
           => tk'.last.requests =
                 <<LoadRequest(WithPage(tk.view, tk.view.pagination.page + 1),
                               FALSE, "loadMore")>>
        /\ LoadMoreDelivered =>
              LET response == GetTicketsResponse(tk'.last.done[1].params)
              IN  /\ tk'.view.tickets = tk.view.tickets \o response.data
                  /\ tk'.view.pagination = response.pagination ]_vars

\* C15: setSearchQuery resets the page to 1 and arms the debounce; when the
\* debounce period elapses one reset fetch is sent with the current trimmed
\* query, filters and sort; a filter or sort change sends a reset fetch at once
C15_SearchRefetchUsesCurrentQuery ==
    [][ /\ tk'.last.op = "setSearchQuery" =>
              /\ tk'.view.pagination.page = 1
              /\ tk'.timer = Some(tk'.view.searchQuery)
              /\ tk'.last.requests = <<>>
        /\ tk'.last.op = "debouncedSearch" =>
              tk'.last.requests = <<LoadRequest(tk.view, TRUE, "debounce")>>
        /\ \/ tk'.last.op = "setFilters"
           \/ /\ tk'.last.op = "setSorting"
              /\ <<tk'.view.sortBy, tk'.view.sortOrder>> # <<tk.view.sortBy, tk.view.sortOrder>>
           => tk'.last.requests = <<LoadRequest(tk'.view, TRUE, "effect")>> ]_vars

----------------------------------------------------------------------------
(* Properties of filteredTickets (specification SpecFilter)                *)

FilterApplied == fn = "filteredTickets" /\ Len(fnOut) = 1

\* an absent or empty set imposes no constraint; otherwise the value is in it
InSetOrUnconstrained(field, value) ==
    \/ field = None
    \/ field[1] = <<>>
    \/ value \in {field[1][i] : i \in 1..Len(field[1])}

\* an absent or empty assignee imposes no constraint; otherwise it is the ticket's
AssigneeOrUnconstrained(field, ticket) ==
    field = None \/ field[1] = <<>> \/ ticket.assignedTo = field

SearchedFields(ticket) ==
    {ticket.title, ticket.description, ticket.userName, ticket.id}

\* the search text as typed occurs in one of the searched fields
ContainsText(ticket, text) ==
    text = <<>> \/ \E field \in SearchedFields(ticket) : Includes(field, text)

\* the search text occurs in one of the searched fields when letter case is
\* ignored; a text of whitespace only counts as empty
ContainsTextIgnoringCase(ticket, text) ==
    \/ \A i \in 1..Len(text) : IsWhitespace(text[i])
    \/ \E field \in SearchedFields(ticket) :
          Includes(ToLowerCase(field), ToLowerCase(text))

SatisfiesSetFilters(ticket, filters) ==
    /\ InSetOrUnconstrained(filters.status, ticket.status)
    /\ InSetOrUnconstrained(filters.category, ticket.category)
    /\ InSetOrUnconstrained(filters.priority, ticket.priority)
    /\ AssigneeOrUnconstrained(filters.assignedTo, ticket)

\* C16 as stated: filteredTickets is exactly the held tickets that satisfy
\* every populated filter field and contain the search text
C16_FilteredIsExactlySatisfying ==
    FilterApplied =>
        fnOut[1] = SelectSeq(fnIn.tickets, LAMBDA ticket :
                        /\ SatisfiesSetFilters(ticket, fnIn.filters)
                        /\ ContainsText(ticket, fnIn.searchQuery))

\* C16 amended: filteredTickets is exactly the held tickets that satisfy
\* every populated filter field and contain the search text with letter case
\* ignored, a search text of whitespace only imposing no constraint
C16_FilteredIsExactlySatisfyingIgnoringCase ==
    FilterApplied =>
        fnOut[1] = SelectSeq(fnIn.tickets, LAMBDA ticket :
                        /\ SatisfiesSetFilters(ticket, fnIn.filters)
                        /\ ContainsTextIgnoringCase(ticket, fnIn.searchQuery))

\* filtering by {status: ['open']} alone kept the open tickets and dropped another
C16_Witness ==
    /\ FilterApplied
    /\ fnIn.filters = [DEFAULT_FILTERS EXCEPT !.status = Some(<<OPEN>>)]
    /\ fnIn.searchQuery = <<>>
    /\ fnOut[1] = SelectSeq(fnIn.tickets, LAMBDA ticket : ticket.status = OPEN)
    /\ Len(fnOut[1]) = 2
    /\ Len(fnIn.tickets) = 3

----------------------------------------------------------------------------
(* Properties of the channel client (specification SpecSocket)             *)

\* the channel client apart from the record of its latest handler
ChannelState(hook) == [hook EXCEPT !.last = NoSocketEvent]

\* C17: connect while connected creates nothing and changes no state; at
\* most one socket is alive, it is the held one, and the exposed isConnected
\* is the held socket's
C17_SingleSocketFollowed ==
    [][ /\ ws'.last.op = "connect" /\ HeldConnected(ws) =>
              ChannelState(ws') = ChannelState(ws)
        /\ Cardinality(Alive(ws')) <= 1
        /\ Alive(ws') \subseteq {ws'.socketRef}
        /\ ws'.isConnected = HeldConnected(ws') ]_vars

\* C18: a socket whose transport reported a connection has sent the join
\* with the role tag and user id given to connect as the first event of that
\* connection and no other join; a socket that is not connected has sent none
C18_JoinFirstOnEveryConnection ==
    \A s \in 1..Len(ws.sockets) :
        LET socket == ws.sockets[s]
            join == [event |-> "join", type |-> socket.type, userId |-> socket.userId]
        IN  IF socket.state = "connected"
            THEN /\ Len(socket.wire) >= 1
                 /\ socket.wire[1] = join
                 /\ \A i \in 2..Len(socket.wire) : socket.wire[i].event # "join"
            ELSE \A i \in 1..Len(socket.wire) : socket.wire[i].event # "join"

\* the held socket has just reconnected after a disconnect and sent its join
C18_Witness ==
    /\ ws.last = [op |-> "transportConnects", from |-> "reconnecting"]
    /\ HeldConnected(ws)
    /\ ws.sockets[ws.socketRef].wire =
          <<[event |-> "join", type |-> "user", userId |-> Some("u1")]>>

\* C19: an outbound helper or the heartbeat ping that runs while the held
\* socket is not connected sends nothing and leaves the channel state as it is
C19_NotConnectedSendsNothing ==
    [][ /\ ws'.last.op \in {"helper", "ping"}
        /\ ~HeldConnected(ws)
        => ChannelState(ws') = ChannelState(ws) ]_vars

\* a helper ran while the first connection attempt was still under way
C19_Witness ==
    /\ ws.last.op = "helper"
    /\ ws.isConnecting
    /\ ws.socketRef # 0
    /\ ws.sockets[ws.socketRef].state = "connecting"
    /\ ws.sockets[ws.socketRef].wire = <<>>

\* C20: the exposed status becomes CONNECTED only from CONNECTING, and a
\* connection error leaves status ERROR with a non-null error string
C20_ConnectedOnlyFromConnecting ==
    [][ /\ ws'.connectionStatus = "connected" /\ ws.connectionStatus # "connected"
              => ws.connectionStatus = "connecting"
        /\ ws'.last.op = "transportConnectError"
              => ws'.connectionStatus = "error" /\ ws'.error # None ]_vars

----------------------------------------------------------------------------
(* Properties of processUserInput over longer conversations                *)
(* (specifications Spec and SpecLoop)                                      *)

\* the last call was made at one of the two category steps
AtCategoryStep ==
    calls > 0 /\ prev.currentStep \in {SUGGEST_CATEGORY, CONFIRM_CATEGORY}

\* the fixed affirmative phrases of the category steps, lower-cased
AffirmativePhrases ==
    CategoryAffirmatives \cup
    { ToLowerCase(QUICK_REPLIES_YES[i]) : i \in 1..Len(QUICK_REPLIES_YES) }

Affirms == ToLowerCase(Trim(lastInput)) \in AffirmativePhrases

\* positions, in declaration order, of the categories the last input names
NamedCategories ==
    { i \in 1..Len(TicketCategory) :
        NamesCategory(ToLowerCase(Trim(lastInput)), TicketCategory[i]) }

FirstNamed ==
    TicketCategory[CHOOSE i \in NamedCategories : \A j \in NamedCategories : i <= j]

\* C23: at SUGGEST_CATEGORY or CONFIRM_CATEGORY an affirmative input confirms
\* the suggested category and moves to FINAL_CONFIRMATION; otherwise an input
\* naming a known category confirms the first one named in declaration order
\* and moves to FINAL_CONFIRMATION; otherwise the step becomes
\* CONFIRM_CATEGORY, the category choices are presented and the suggested and
\* confirmed categories are left unchanged.
C23_CategoryStepOutcome ==
    AtCategoryStep =>
        IF Affirms
        THEN /\ conv.collectedData.confirmedCategory = prev.collectedData.suggestedCategory
             /\ conv.currentStep = FINAL_CONFIRMATION
        ELSE IF NamedCategories # {}
        THEN /\ conv.collectedData.confirmedCategory = FirstNamed
             /\ conv.currentStep = FINAL_CONFIRMATION
        ELSE /\ conv.currentStep = CONFIRM_CATEGORY
             /\ aiResponse.categoryOptions = CATEGORY_OPTIONS
             /\ conv.collectedData.suggestedCategory = prev.collectedData.suggestedCategory
             /\ conv.collectedData.confirmedCategory = prev.collectedData.confirmedCategory

\* a non-affirmative input naming two categories, the later-declared one
\* first in the text, was given at a category step
C23_Witness ==
    /\ AtCategoryStep
    /\ ~Affirms
    /\ Cardinality(NamedCategories) > 1
    /\ conv.collectedData.confirmedCategory = BILLING
    /\ prev.collectedData.suggestedCategory # BILLING

\* C24: every call returns the previous message list as an unchanged prefix
\* followed by exactly two messages, a USER message with the trimmed input and
\* an ASSISTANT message; so the list starts with the ASSISTANT greeting, has
\* odd length and ends with an ASSISTANT message.
C24_MessagesAppendOnly ==
    /\ calls > 0 =>
          /\ Len(conv.messages) = Len(prev.messages) + 2
          /\ SubSeq(conv.messages, 1, Len(prev.messages)) = prev.messages
          /\ conv.messages[Len(prev.messages) + 1].role = USER
          /\ conv.messages[Len(prev.messages) + 1].content = Trim(lastInput)
          /\ conv.messages[Len(prev.messages) + 2].role = ASSISTANT
    /\ conv.messages[1].role = ASSISTANT
    /\ conv.messages[1].prompt = "GREETING"
    /\ Len(conv.messages) % 2 = 1
    /\ conv.messages[Len(conv.messages)].role = ASSISTANT

\* a second or later call whose input had surrounding blanks
C24_Witness ==
    /\ calls > 1
    /\ Trim(lastInput) # lastInput
    /\ Trim(lastInput) # <<>>
    /\ Len(conv.messages) = 2 * calls + 1

\* C28: after a call the argument's currentStep, messages and collected data,
\* its list of additional details included, are what they were before it.
C28_ArgumentUnmodified ==
    calls > 0 =>
        /\ passed.currentStep = prev.currentStep
        /\ passed.messages = prev.messages
        /\ passed.collectedData = prev.collectedData

HasText(opt) == opt # None /\ opt[1] # <<>>

Confirming == conv.currentStep \in {FINAL_CONFIRMATION, TICKET_CREATED}

\* what the claim says of every field but the title
OtherFieldsCollected ==
    /\ HasText(conv.collectedData.userName)
    /\ HasText(conv.collectedData.issueDescription)
    /\ Len(conv.collectedData.additionalDetails) >= 1
    /\ conv.collectedData.confirmedCategory # Undefined
    /\ conv.collectedData.confirmedCategory = conv.collectedData.suggestedCategory

----------------------------------------------------------------------------
(* Overlapping requests of the ticket view-model (specification            *)
(* SpecTickets)                                                            *)

\* the step just taken delivered the server's page to a reset load
ResetLoadDelivered ==
    /\ tk'.last.op = "settled"
    /\ tk'.last.outcome = "ok"
    /\ tk'.last.done[1].kind = "load"
    /\ tk'.last.done[1].reset

\* C25: responses are applied in arrival order and the last arrival wins: when
\* the page of a reset load arrives, the held collection becomes exactly that
\* page, whatever was held and whichever request was issued first.
C25_LastArrivalWins ==
    [][ ResetLoadDelivered =>
          tk'.view.tickets = GetTicketsResponse(tk'.last.done[1].params).data ]_vars

\* two reset loads overlapped and the one issued first arrived last: the view
\* sorts ascending, nothing is in flight, and the held page is the descending
\* one of the mount's load
C25_Witness ==
    /\ tk.last.op = "settled"
    /\ tk.last.outcome = "ok"
    /\ tk.last.done[1].via = "mount"
    /\ tk.inflight = <<>>
    /\ tk.view.sortOrder = "asc"
    /\ tk.issued = 3
    /\ tk.view.tickets = ServerPage(1, DEFAULT_PAGE_SIZE)
    /\ tk.view.tickets # ServerPageOrdered(1, DEFAULT_PAGE_SIZE, "asc")

----------------------------------------------------------------------------
(* Properties of the chat view-model (specification SpecChat)              *)

\* the step just taken was a sendMessage call that sent its request
SendAccepted == ch'.last.op = "sendMessage" /\ ch'.last.sent

\* the message of the request issued last
LastSent(hook) == hook.inflight[Len(hook.inflight)].message

LastMessage(hook) ==
    hook.conversation[1].state.messages[Len(hook.conversation[1].state.messages)]

\* C21: once sendMessage(m) is accepted, and before the response arrives, the
\* held conversation has the user's message m as its last message.
C21_AcceptedSendIsEchoed ==
    [][ SendAccepted =>
          /\ ch'.conversation # None
          /\ LastMessage(ch').role = USER
          /\ LastMessage(ch').content = LastSent(ch') ]_vars

\* the step just taken delivered the backend's conversation to a sendMessage
SendDelivered ==
    /\ ch'.last.op = "settled"
    /\ ch'.last.outcome = "ok"
    /\ ch'.last.done[1].kind = "send"

\* the chat half of C25: when the response to a sendMessage arrives, the held
\* conversation becomes exactly the conversation of that response
ChatLastArrivalWins ==
    [][ SendDelivered =>
          ch'.conversation = Some(SendMessageResponse(ch'.last.done[1])) ]_vars

\* two sends overlapped and the one issued first arrived last
ChatOverlapWitness ==
    /\ ch.last.op = "settled"
    /\ ch.last.outcome = "ok"
    /\ ch.last.done[1].kind = "send"
    /\ ch.last.done[1].conversation.createdTicketId = NoTicketId
    /\ ch.issued = 3
    /\ ch.tickets = 1
    /\ ch.inflight = <<>>
    /\ ch.conversation[1].createdTicketId = NoTicketId

\* C27: while no conversation is held after resetConversation(), the held
\* conversation stays null and nothing is written under the persisted key
\* until startConversation() is called, whatever response arrives.
C27_ResetStaysNullUntilStart ==
    [][ (ch.mounted /\ ch.conversation = None /\ ch'.last.op # "startConversation") =>
          /\ ch'.conversation = None
          /\ ch'.storage = ch.storage ]_vars

\* a create request was issued by the step just taken
CreateIssued == ch'.last.op = "createTicket" /\ ch'.last.sent

CreateInFlight(hook) ==
    \E i \in 1..Len(hook.inflight) : hook.inflight[i].kind = "create"

\* C29: a create request is sent only for a complete conversation, and none is
\* sent while one is in flight or once createdTicketId is set, by the button
\* or by the shortcut.
C29_AtMostOneCreate ==
    [][ CreateIssued =>
          /\ ch.conversation # None
          /\ ch.conversation[1].state.isComplete
          /\ ~CreateInFlight(ch)
          /\ ch.conversation[1].createdTicketId = NoTicketId ]_vars

----------------------------------------------------------------------------
(* The local filter against the request's filter (specification SpecFilter) *)

\* the request loadTickets builds for the filter and search state given to
\* filteredTickets
RequestedQuery ==
    TicketsQuery(LoadParams([FirstRender EXCEPT !.filters = fnIn.filters,
                                                !.searchQuery = fnIn.searchQuery],
                            TRUE))

\* a parameter that was not sent selects every ticket; a list selects the
\* tickets whose value is in it
InSentList(param, value) ==
    param = None \/ value \in {param[1][i] : i \in 1..Len(param[1])}

\* the predicates of a query: status, priority and category in the lists
\* sent, the assignee equal to the one sent, and the search text sent
\* occurring in a searched field, letter case ignored
SelectedByQuery(ticket, query) ==
    /\ InSentList(query.status, ticket.status)
    /\ InSentList(query.priority, ticket.priority)
    /\ InSentList(query.category, ticket.category)
    /\ query.assignedTo = None \/ ticket.assignedTo = query.assignedTo
    /\ \/ query.searchQuery = None
       \/ \E field \in SearchedFields(ticket) :
             Includes(ToLowerCase(field), ToLowerCase(query.searchQuery[1]))

\* C22: for the same held tickets and the same filter and search state, the
\* tickets the local filter keeps are the tickets selected by the predicates
\* sent to the server for that state, also for a search text with leading or
\* trailing whitespace and for filters carrying a date range.
C22_LocalFilterEqualsRequested ==
    FilterApplied =>
        {fnOut[1][i] : i \in 1..Len(fnOut[1])} =
        {fnIn.tickets[i] : i \in {j \in 1..Len(fnIn.tickets) :
                                    SelectedByQuery(fnIn.tickets[j], RequestedQuery)}}

----------------------------------------------------------------------------
(* Teardown of the channel client (specification SpecSocket)               *)

\* what the claim says of the connection and the flags after teardown
TornDown(before, after) ==
    /\ after.sockets[before.socketRef].state = "closed"
    /\ after.socketRef = 0
    /\ ~after.isConnected
    /\ ~after.isConnecting
    /\ after.error = None
    /\ ~HeartbeatRunning(after)

\* C26: after disconnect() the held connection is closed and no longer held,
\* isConnected and isConnecting are false, the error is null, the registry of
\* handlers added through on() is empty and the heartbeat timer is stopped;
\* with no connection held, disconnect() changes nothing.
C26_TeardownClearsEverything ==
    [][ ws'.last.op = "disconnect" =>
          IF ws.socketRef = 0 THEN ChannelState(ws') = ChannelState(ws)
          ELSE TornDown(ws, ws') /\ ws'.handlers = {} ]_vars

\* the same without the registry of handlers
TeardownClearsConnection ==
    [][ ws'.last.op = "disconnect" =>
          IF ws.socketRef = 0 THEN ChannelState(ws') = ChannelState(ws)
          ELSE TornDown(ws, ws') ]_vars

====
